---- MODULE Spec2Model ----
(***************************************************************************)
(* Review-based rating aggregation of the movie review service:            *)
(*   - SentimentAnalyzer (src/src/services/sentiment_analyzer.py): the     *)
(*     lexicon scorer and the review aggregator,                           *)
(*   - TMDBService (src/src/services/tmdb_service.py): the review-based    *)
(*     rating and its composer _calculate_comprehensive_rating.            *)
(*                                                                         *)
(* Conventions.  A Python str is a sequence of Unicode code points, so a   *)
(* text is a sequence of integers (the word next to each literal is in the *)
(* comment).  A Python float is modelled by the exact rational it stands   *)
(* for, a record [n |-> numerator, d |-> denominator] in lowest terms with *)
(* d > 0; round() is round-half-even on that rational.  Binary rounding    *)
(* error of IEEE doubles is not modelled: where the exact value is a       *)
(* decimal tie (x.x5 before round(x, 1)) the double lies on either side of *)
(* it and the code's result may be the other neighbour.                    *)
(***************************************************************************)
EXTENDS Integers, Sequences, FiniteSets, TLC

VARIABLES
  text,               \* argument of the SentimentAnalyzer.analyze call
  score,              \* its return value
  value,              \* argument of an analyze call that may not be a str
  outcome,            \* how that call ended: a return value or an exception
  pc,                 \* position of calculate_review_based_rating
  reviews,            \* batch returned by TMDBService.get_movie_reviews
  rating,             \* result dict of calculate_review_based_rating
  called,             \* helpers that call of calculate_review_based_rating ran
  summary,            \* result dict of SentimentAnalyzer.analyze_reviews
  composer_input,     \* arguments of _calculate_comprehensive_rating
  rating_components,  \* its result dict
  second_input,       \* arguments of a second composer call
  second_components,  \* result dict of the second composer call
  requested,          \* page numbers get_movie_reviews has requested, in order
  responses,          \* the answer the catalog gave to each of those requests
  total_pages,        \* local total_pages of get_movie_reviews
  collected,          \* local list "reviews" of get_movie_reviews
  review_agent,       \* global review_agent of main.py: None or the agent
  review_tasks,       \* global review_tasks of main.py: task_id -> GenerationStatus
  coroutines,         \* the background coroutine of each task: position and locals
  http_response,      \* the last answer of an endpoint of main.py
  rated_movie_info,   \* argument movie_info of a _calculate_rating call
  rated_context,      \* argument context of that call
  calculated_rating,   \* its return value
  session,            \* TMDBService.session of the agent's one TMDBService
  sessions,           \* every aiohttp.ClientSession made: who opened, who closed it
  blocks,             \* position of each "async with self.tmdb_service" block
  batch_pc,           \* position of generate_batch_reviews
  batch_request,      \* movies of the BatchReviewRequest
  batch_results,      \* how each agent.generate_review call of the batch ended
  batch_response      \* answer of POST /api/review/batch

scorer_vars   == <<text, score, value, outcome>>
service_vars  == <<pc, reviews, rating, called, summary>>
composer_vars == <<composer_input, rating_components, second_input, second_components>>
fetch_vars    == <<requested, responses, total_pages, collected>>
job_vars      == <<review_agent, review_tasks, coroutines, http_response>>
agent_vars    == <<rated_movie_info, rated_context, calculated_rating>>

session_vars  == <<session, sessions, blocks>>
batch_vars    == <<batch_pc, batch_request, batch_results, batch_response>>

vars == <<scorer_vars, service_vars, composer_vars, fetch_vars, job_vars, agent_vars,
          session_vars, batch_vars>>

\* the Python None, and the value of a result that has not been returned yet
\* (the empty function: it differs from every dict and every float)
None == <<>>

(***************************************************************************)
(* Exact arithmetic on the values Python floats stand for.                 *)
(***************************************************************************)
Abs(i) == IF i < 0 THEN -i ELSE i

RECURSIVE GCD(_, _)
GCD(a, b) == IF b = 0 THEN a ELSE GCD(b, a % b)

\* the rational num/den (den > 0) in lowest terms
R(num, den) ==
  LET g == GCD(Abs(num), den)
  IN  IF g = 0 THEN [n |-> 0, d |-> 1] ELSE [n |-> num \div g, d |-> den \div g]

RInt(i) == [n |-> i, d |-> 1]

\* x + y
RAdd(x, y) ==
  LET g == GCD(x.d, y.d)
  IN  R(x.n * (y.d \div g) + y.n * (x.d \div g), (x.d \div g) * y.d)

\* -x
RNeg(x) == [n |-> -x.n, d |-> x.d]

\* x - y
RSub(x, y) == RAdd(x, RNeg(y))

\* x * y
RMul(x, y) ==
  LET g1 == GCD(Abs(x.n), y.d)
      g2 == GCD(Abs(y.n), x.d)
  IN  IF x.n = 0 \/ y.n = 0 THEN [n |-> 0, d |-> 1]
      ELSE [n |-> (x.n \div g1) * (y.n \div g2), d |-> (x.d \div g2) * (y.d \div g1)]

\* x / i for an integer i > 0
RDivInt(x, i) == RMul(x, [n |-> 1, d |-> i])

\* x < y, by comparing integer parts and then the inverted fractional parts
RECURSIVE RLess(_, _)
RLess(x, y) ==
  LET qx == x.n \div x.d
      qy == y.n \div y.d
      rx == x.n - qx * x.d
      ry == y.n - qy * y.d
  IN  IF qx # qy THEN qx < qy
      ELSE IF ry = 0 THEN FALSE
      ELSE IF rx = 0 THEN TRUE
      ELSE RLess([n |-> y.d, d |-> ry], [n |-> x.d, d |-> rx])

\* x <= y
RLeq(x, y) == ~RLess(y, x)

\* x >= y
RGeq(x, y) == ~RLess(x, y)

\* x > y
RGreater(x, y) == RLess(y, x)

\* abs(x)
RAbs(x) == [n |-> Abs(x.n), d |-> x.d]

\* min(x, y): Python returns the first argument unless the second is smaller
RMin(x, y) == IF RLess(y, x) THEN y ELSE x

\* max(x, y): Python returns the first argument unless the second is larger
RMax(x, y) == IF RLess(x, y) THEN y ELSE x

\* 10^k
RECURSIVE Pow10(_)
Pow10(k) == IF k = 0 THEN 1 ELSE 10 * Pow10(k - 1)

\* round(x, ndigits): nearest multiple of 10^-ndigits, ties to the even one
round(x, ndigits) ==
  LET p  == Pow10(ndigits)
      s  == RMul(x, RInt(p))
      fl == s.n \div s.d
      r2 == 2 * (s.n - fl * s.d)
      up == r2 > s.d \/ (r2 = s.d /\ fl % 2 = 1)
  IN  R(IF up THEN fl + 1 ELSE fl, p)

\* sum of xs[lo..hi], by halves (addition of rationals is associative)
RECURSIVE SumRange(_, _, _)
SumRange(xs, lo, hi) ==
  IF lo > hi THEN RInt(0)
  ELSE IF lo = hi THEN xs[lo]
  ELSE RAdd(SumRange(xs, lo, (lo + hi) \div 2), SumRange(xs, (lo + hi) \div 2 + 1, hi))

\* sum(xs) of a list of floats
sum(xs) == SumRange(xs, 1, Len(xs))

(***************************************************************************)
(* Python str operations used by the scorer.                               *)
(***************************************************************************)
\* str.isspace() of one code point
IsSpace(c) ==
  c \in (9..13) \cup (28..32) \cup {133, 160, 5760, 8232, 8233, 8239, 8287, 12288}
        \cup (8192..8202)

\* str.lower() on the code points the inputs use (ASCII letters; CJK has no case)
lower(s) == [i \in 1..Len(s) |-> IF s[i] \in 65..90 THEN s[i] + 32 ELSE s[i]]

\* s[a:b] with 0-based a <= b <= len(s)
Slice(s, a, b) == [i \in 1..(b - a) |-> s[a + i]]

\* str.strip(): drop leading and trailing whitespace
RECURSIVE lstrip(_)
lstrip(s) == IF s # <<>> /\ IsSpace(Head(s)) THEN lstrip(Tail(s)) ELSE s

RECURSIVE rstrip(_)
rstrip(s) ==
  IF s # <<>> /\ IsSpace(s[Len(s)]) THEN rstrip(Slice(s, 0, Len(s) - 1)) ELSE s

strip(s) == rstrip(lstrip(s))

\* 0-based start positions at which w occurs in s
Occurrences(w, s) ==
  {p \in 0..(Len(s) - Len(w)) : \A i \in 1..Len(w) : s[p + i] = w[i]}

\* w in s
In(w, s) == Occurrences(w, s) # {}

\* s.find(w) for a w that occurs in s: the first position
find(s, w) == CHOOSE p \in Occurrences(w, s) : \A q \in Occurrences(w, s) : p <= q

\* positive_keywords (sentiment_analyzer.py:48-69): 102 distinct words, as code-point sequences
positive_keywords ==
  {
    <<22909>>,  \* 好
    <<26834>>,  \* 棒
    <<31934,24425>>,  \* 精彩
    <<23436,32654>>,  \* 完美
    <<32463,20856>>,  \* 经典
    <<20986,33394>>,  \* 出色
    <<20248,31168>>,  \* 优秀
    <<24863,20154>>,  \* 感人
    <<38663,25788>>,  \* 震撼
    <<22909,30475>>,  \* 好看
    <<19981,38169>>,  \* 不错
    <<21916,27426>>,  \* 喜欢
    <<25512,33616>>,  \* 推荐
    <<20540,24471>>,  \* 值得
    <<28385,24847>>,  \* 满意
    <<24320,24515>>,  \* 开心
    <<24555,20048>>,  \* 快乐
    <<20139,21463>>,  \* 享受
    <<33258,28982>>,  \* 自然
    <<30495,23454>>,  \* 真实
    <<29983,21160>>,  \* 生动
    <<32039,20945>>,  \* 紧凑
    <<24039,22937>>,  \* 巧妙
    <<29992,24515>>,  \* 用心
    <<29233>>,  \* 爱
    <<26368,29233>>,  \* 最爱
    <<26368,20339>>,  \* 最佳
    <<26480,20316>>,  \* 杰作
    <<31070,20316>>,  \* 神作
    <<36229,36190>>,  \* 超赞
    <<29275,36924>>,  \* 牛逼
    <<21385,23475>>,  \* 厉害
    <<20248,32654>>,  \* 优美
    <<28145,21051>>,  \* 深刻
    <<31934,24425,32477,20262>>,  \* 精彩绝伦
    <<26080,19982,20262,27604>>,  \* 无与伦比
    <<21497,20026,35266,27490>>,  \* 叹为观止
    <<25293,25163,21483,22909>>,  \* 拍手叫好
    <<36807,30270>>,  \* 过瘾
    <<29245>>,  \* 爽
    <<32654,20029>>,  \* 美丽
    <<21326,20029>>,  \* 华丽
    <<31934,33268>>,  \* 精致
    <<31934,24425,32439,21576>>,  \* 精彩纷呈
    <<22826,31934,24425,20102>>,  \* 太精彩了
    <<30495,30340,24456,22909>>,  \* 真的很好
    <<38750,24120,31934,24425>>,  \* 非常精彩
    <<29305,21035,26834>>,  \* 特别棒
    <<24378,28872,25512,33616>>,  \* 强烈推荐
    <<22826,26834,20102>>,  \* 太棒了
    <<38750,24120,22909>>,  \* 非常好
    <<29305,21035,31934,24425>>,  \* 特别精彩
    <<38750,24120,26834>>,  \* 非常棒
    <<22826,36190,20102>>,  \* 太赞了
    <<30495,30340,24456,26834>>,  \* 真的很棒
    <<38750,24120,20986,33394>>,  \* 非常出色
    <<26497,20026,31934,24425>>,  \* 极为精彩
    <<30456,24403,31934,24425>>,  \* 相当精彩
    <<26497,20026,20986,33394>>,  \* 极为出色
    <<38750,24120,20248,31168>>,  \* 非常优秀
    <<29305,21035,20248,31168>>,  \* 特别优秀
    <<103,114,101,97,116>>,  \* great
    <<101,120,99,101,108,108,101,110,116>>,  \* excellent
    <<97,109,97,122,105,110,103>>,  \* amazing
    <<119,111,110,100,101,114,102,117,108>>,  \* wonderful
    <<102,97,110,116,97,115,116,105,99>>,  \* fantastic
    <<98,114,105,108,108,105,97,110,116>>,  \* brilliant
    <<112,101,114,102,101,99,116>>,  \* perfect
    <<109,97,115,116,101,114,112,105,101,99,101>>,  \* masterpiece
    <<115,117,112,101,114,98>>,  \* superb
    <<111,117,116,115,116,97,110,100,105,110,103>>,  \* outstanding
    <<109,97,103,110,105,102,105,99,101,110,116>>,  \* magnificent
    <<98,101,97,117,116,105,102,117,108>>,  \* beautiful
    <<108,111,118,101>>,  \* love
    <<108,111,118,101,100>>,  \* loved
    <<98,101,115,116>>,  \* best
    <<105,110,99,114,101,100,105,98,108,101>>,  \* incredible
    <<97,119,101,115,111,109,101>>,  \* awesome
    <<103,111,111,100>>,  \* good
    <<110,105,99,101>>,  \* nice
    <<101,110,106,111,121,101,100>>,  \* enjoyed
    <<101,110,106,111,121,97,98,108,101>>,  \* enjoyable
    <<105,109,112,114,101,115,115,101,100>>,  \* impressed
    <<105,109,112,114,101,115,115,105,118,101>>,  \* impressive
    <<116,111,117,99,104,105,110,103>>,  \* touching
    <<109,111,118,105,110,103>>,  \* moving
    <<112,111,119,101,114,102,117,108>>,  \* powerful
    <<115,116,114,111,110,103>>,  \* strong
    <<114,101,109,97,114,107,97,98,108,101>>,  \* remarkable
    <<97,98,115,111,108,117,116,101,108,121>>,  \* absolutely
    <<114,101,97,108,108,121>>,  \* really
    <<118,101,114,121>>,  \* very
    <<104,105,103,104,108,121>>,  \* highly
    <<116,114,117,108,121>>,  \* truly
    <<103,101,110,117,105,110,101,108,121>>,  \* genuinely
    <<99,104,97,110,103,101,100>>,  \* changed
    <<108,105,102,101>>,  \* life
    <<103,114,101,97,116,101,115,116>>,  \* greatest
    <<101,118,101,114>>,  \* ever
    <<115,116,97,110,100>>,  \* stand
    <<116,105,109,101>>,  \* time
    <<116,101,115,116>>  \* test
  }

\* negative_keywords (sentiment_analyzer.py:71-92): 101 distinct words, as code-point sequences
negative_keywords ==
  {
    <<24046>>,  \* 差
    <<28866>>,  \* 烂
    <<31967,31957>>,  \* 糟糕
    <<22403,22334>>,  \* 垃圾
    <<22833,26395>>,  \* 失望
    <<21518,24724>>,  \* 后悔
    <<26080,32842>>,  \* 无聊
    <<38590,30475>>,  \* 难看
    <<19981,34892>>,  \* 不行
    <<19981,22909>>,  \* 不好
    <<19968,33324>>,  \* 一般
    <<26222,36890>>,  \* 普通
    <<23604,23596>>,  \* 尴尬
    <<20570,20316>>,  \* 做作
    <<22840,24352>>,  \* 夸张
    <<29983,30828>>,  \* 生硬
    <<32769,22871>>,  \* 老套
    <<20439,22871>>,  \* 俗套
    <<25302,27795>>,  \* 拖沓
    <<28151,20081>>,  \* 混乱
    <<29301,24378>>,  \* 牵强
    <<31354,27934>>,  \* 空洞
    <<20047,21619>>,  \* 乏味
    <<21333,35843>>,  \* 单调
    <<35752,21388>>,  \* 讨厌
    <<24694,24515>>,  \* 恶心
    <<22403,22334,29255>>,  \* 垃圾片
    <<28866,29255>>,  \* 烂片
    <<30475,19981,19979,21435>>,  \* 看不下去
    <<28010,36153,26102,38388>>,  \* 浪费时间
    <<27585,19977,35266>>,  \* 毁三观
    <<20652,30496>>,  \* 催眠
    <<24179,24248>>,  \* 平庸
    <<25305,21155>>,  \* 拙劣
    <<31895,31961>>,  \* 粗糙
    <<20302,21155>>,  \* 低劣
    <<26080,36259>>,  \* 无趣
    <<26543,29157>>,  \* 枯燥
    <<20887,38271>>,  \* 冗长
    <<26494,25955>>,  \* 松散
    <<28151,20081,19981,22570>>,  \* 混乱不堪
    <<30495,30340,24456,24046>>,  \* 真的很差
    <<38750,24120,31967,31957>>,  \* 非常糟糕
    <<29305,21035,24046>>,  \* 特别差
    <<22826,28866,20102>>,  \* 太烂了
    <<23436,20840,28010,36153,26102,38388>>,  \* 完全浪费时间
    <<38750,24120,22833,26395>>,  \* 非常失望
    <<29305,21035,31967,31957>>,  \* 特别糟糕
    <<26497,20026,31967,31957>>,  \* 极为糟糕
    <<30456,24403,24046>>,  \* 相当差
    <<38750,24120,24046>>,  \* 非常差
    <<26497,24046>>,  \* 极差
    <<22826,24046,20102>>,  \* 太差了
    <<23436,20840,19981,25512,33616>>,  \* 完全不推荐
    <<38750,24120,38590,30475>>,  \* 非常难看
    <<29305,21035,38590,30475>>,  \* 特别难看
    <<26497,20026,22833,26395>>,  \* 极为失望
    <<30456,24403,31967,31957>>,  \* 相当糟糕
    <<38750,24120,21518,24724>>,  \* 非常后悔
    <<98,97,100>>,  \* bad
    <<116,101,114,114,105,98,108,101>>,  \* terrible
    <<97,119,102,117,108>>,  \* awful
    <<104,111,114,114,105,98,108,101>>,  \* horrible
    <<100,105,115,97,112,112,111,105,110,116,105,110,103>>,  \* disappointing
    <<100,105,115,97,112,112,111,105,110,116,101,100>>,  \* disappointed
    <<119,97,115,116,101>>,  \* waste
    <<98,111,114,105,110,103>>,  \* boring
    <<98,111,114,101,100>>,  \* bored
    <<112,111,111,114>>,  \* poor
    <<119,111,114,115,116>>,  \* worst
    <<104,97,116,101>>,  \* hate
    <<104,97,116,101,100>>,  \* hated
    <<100,105,115,108,105,107,101>>,  \* dislike
    <<100,105,115,108,105,107,101,100>>,  \* disliked
    <<109,101,100,105,111,99,114,101>>,  \* mediocre
    <<112,114,101,100,105,99,116,97,98,108,101>>,  \* predictable
    <<114,105,100,105,99,117,108,111,117,115>>,  \* ridiculous
    <<115,116,117,112,105,100>>,  \* stupid
    <<100,117,109,98>>,  \* dumb
    <<115,117,99,107,115>>,  \* sucks
    <<115,117,99,107,101,100>>,  \* sucked
    <<99,114,97,112>>,  \* crap
    <<116,114,97,115,104>>,  \* trash
    <<103,97,114,98,97,103,101>>,  \* garbage
    <<111,118,101,114,114,97,116,101,100>>,  \* overrated
    <<100,105,115,103,117,115,116,105,110,103>>,  \* disgusting
    <<97,110,110,111,121,105,110,103>>,  \* annoying
    <<102,114,117,115,116,114,97,116,105,110,103>>,  \* frustrating
    <<119,101,97,107>>,  \* weak
    <<97,98,115,111,108,117,116,101,108,121>>,  \* absolutely
    <<99,111,109,112,108,101,116,101,108,121>>,  \* completely
    <<116,105,109,101>>,  \* time
    <<109,111,110,101,121>>,  \* money
    <<100,111,110,116>>,  \* dont
    <<100,111,110,39,116>>,  \* don't
    <<98,111,116,104,101,114>>,  \* bother
    <<119,97,116,99,104,105,110,103>>,  \* watching
    <<117,110,100,101,114,115,116,97,110,100>>,  \* understand
    <<119,104,121>>,  \* why
    <<112,101,111,112,108,101>>,  \* people
    <<108,111,118,101>>  \* love
  }

\* intensifiers (sentiment_analyzer.py:95-104): 30 distinct words, as code-point sequences
intensifiers ==
  {
    <<38750,24120>>,  \* 非常
    <<29305,21035>>,  \* 特别
    <<26497,20854>>,  \* 极其
    <<22826>>,  \* 太
    <<30495,30340>>,  \* 真的
    <<24456>>,  \* 很
    <<30456,24403>>,  \* 相当
    <<21313,20998>>,  \* 十分
    <<36229,32423>>,  \* 超级
    <<26497,24230>>,  \* 极度
    <<30830,23454>>,  \* 确实
    <<23454,22312>>,  \* 实在
    <<36807,20110>>,  \* 过于
    <<22826,36807>>,  \* 太过
    <<23588,20854>>,  \* 尤其
    <<26684,22806>>,  \* 格外
    <<118,101,114,121>>,  \* very
    <<114,101,97,108,108,121>>,  \* really
    <<115,111>>,  \* so
    <<101,120,116,114,101,109,101,108,121>>,  \* extremely
    <<97,98,115,111,108,117,116,101,108,121>>,  \* absolutely
    <<99,111,109,112,108,101,116,101,108,121>>,  \* completely
    <<116,111,116,97,108,108,121>>,  \* totally
    <<113,117,105,116,101>>,  \* quite
    <<114,97,116,104,101,114>>,  \* rather
    <<112,114,101,116,116,121>>,  \* pretty
    <<102,97,105,114,108,121>>,  \* fairly
    <<104,105,103,104,108,121>>,  \* highly
    <<116,114,117,108,121>>,  \* truly
    <<103,101,110,117,105,110,101,108,121>>  \* genuinely
  }

\* negations (sentiment_analyzer.py:107-115): 32 distinct words, as code-point sequences
negations ==
  {
    <<19981>>,  \* 不
    <<27809>>,  \* 没
    <<26080>>,  \* 无
    <<21035>>,  \* 别
    <<26410>>,  \* 未
    <<27627,26080>>,  \* 毫无
    <<23436,20840,27809,26377>>,  \* 完全没有
    <<110,111,116>>,  \* not
    <<110,111>>,  \* no
    <<110,101,118,101,114>>,  \* never
    <<110,111,110,101>>,  \* none
    <<110,111,116,104,105,110,103>>,  \* nothing
    <<110,111,98,111,100,121>>,  \* nobody
    <<110,111,119,104,101,114,101>>,  \* nowhere
    <<110,101,105,116,104,101,114>>,  \* neither
    <<110,111,114>>,  \* nor
    <<100,111,110,39,116>>,  \* don't
    <<100,111,110,116>>,  \* dont
    <<100,111,101,115,110,39,116>>,  \* doesn't
    <<100,111,101,115,110,116>>,  \* doesnt
    <<100,105,100,110,39,116>>,  \* didn't
    <<100,105,100,110,116>>,  \* didnt
    <<119,111,110,39,116>>,  \* won't
    <<119,111,110,116>>,  \* wont
    <<119,111,117,108,100,110,39,116>>,  \* wouldn't
    <<119,111,117,108,100,110,116>>,  \* wouldnt
    <<99,97,110,39,116>>,  \* can't
    <<99,97,110,116>>,  \* cant
    <<99,111,117,108,100,110,39,116>>,  \* couldn't
    <<99,111,117,108,100,110,116>>,  \* couldnt
    <<115,104,111,117,108,100,110,39,116>>,  \* shouldn't
    <<115,104,111,117,108,100,110,116>>  \* shouldnt
  }

(***************************************************************************)
(* SentimentAnalyzer: the lexicon scorer.                                  *)
(***************************************************************************)
\* text_lower[max(0, keyword_pos - 8):keyword_pos] for the first occurrence
\* of keyword
preceding_text(keyword, text_lower) ==
  LET keyword_pos == find(text_lower, keyword)
      start_pos   == IF keyword_pos - 8 > 0 THEN keyword_pos - 8 ELSE 0
  IN  Slice(text_lower, start_pos, keyword_pos)

\* variant: the length test is made on what remains of the stripped window
\* once the negation word is taken out
negation_found_remainder(keyword, text_lower) ==
  LET window == preceding_text(keyword, text_lower)
  IN  \E neg \in negations :
        In(neg, window) /\ Len(strip(window)) - Len(neg) <= Len(neg) + 2

\* the negation loop: some negation word lies in the window and the stripped
\* window is at most two code points longer than that word
negation_found(keyword, text_lower) ==
  LET window == preceding_text(keyword, text_lower)
  IN  \E neg \in negations :
        In(neg, window) /\ Len(strip(window)) <= Len(neg) + 2

\* the intensifier loop: some intensifier lies in the window
intensifier_found(keyword, text_lower) ==
  \E intensifier \in intensifiers : In(intensifier, preceding_text(keyword, text_lower))

\* one tally loop (positive_score or negative_score): every keyword of the
\* lexicon that occurs in the text adds -1 when negated, else +1, and +0.5
\* more when an intensifier precedes it
keyword_score(keywords, text_lower) ==
  LET hits      == {k \in keywords : In(k, text_lower)}
      negated   == {k \in hits : negation_found(k, text_lower)}
      plain     == hits \ negated
      amplified == {k \in plain : intensifier_found(k, text_lower)}
  IN  R(2 * Cardinality(plain) - 2 * Cardinality(negated) + Cardinality(amplified), 2)

\* len(positive_keywords) + len(negative_keywords)
max_score == Cardinality(positive_keywords) + Cardinality(negative_keywords)

\* variant: the normalized score is returned without the amplification by 12
_simple_sentiment_analysis_unamplified(t) ==
  LET text_lower     == lower(t)
      positive_score == keyword_score(positive_keywords, text_lower)
      negative_score == keyword_score(negative_keywords, text_lower)
      total_score    == RSub(positive_score, negative_score)
  IN  RMax(RMin(RDivInt(total_score, max_score), RInt(1)), RInt(-1))

\* variant: the amplified score is returned without the clamp to [-1, 1]
_simple_sentiment_analysis_unclamped(t) ==
  LET text_lower     == lower(t)
      positive_score == keyword_score(positive_keywords, text_lower)
      negative_score == keyword_score(negative_keywords, text_lower)
      total_score    == RSub(positive_score, negative_score)
  IN  RMul(RDivInt(total_score, max_score), RInt(12))

\* variant: the amplification by 8 the code used before
_simple_sentiment_analysis_times_eight(t) ==
  LET text_lower     == lower(t)
      positive_score == keyword_score(positive_keywords, text_lower)
      negative_score == keyword_score(negative_keywords, text_lower)
      total_score    == RSub(positive_score, negative_score)
  IN  IF total_score = RInt(0) THEN RInt(0)
      ELSE RMax(RMin(RMul(RDivInt(total_score, max_score), RInt(8)), RInt(1)), RInt(-1))

_simple_sentiment_analysis(t) ==
  LET text_lower     == lower(t)
      positive_score == keyword_score(positive_keywords, text_lower)
      negative_score == keyword_score(negative_keywords, text_lower)
      total_score    == RSub(positive_score, negative_score)
      normalized     == RDivInt(total_score, max_score)
      enhanced_score == RMul(normalized, RInt(12))
  IN  IF total_score = RInt(0) THEN RInt(0)
      ELSE IF max_score > 0
           THEN RMax(RMin(enhanced_score, RInt(1)), RInt(-1))
           ELSE RInt(0)

\* SentimentAnalyzer.analyze (self.classifier is always None)
analyze(t) ==
  IF t = <<>> \/ strip(t) = <<>> THEN RInt(0)
  ELSE _simple_sentiment_analysis(t)

\* Python values an untyped caller can pass as "text"
PyNone      == [type |-> "NoneType"]
PyInt(i)    == [type |-> "int", int |-> i]
PyList(xs)  == [type |-> "list", items |-> xs]
PyDict(ks)  == [type |-> "dict", keys |-> ks]
PyStr(t)    == [type |-> "str", str |-> t]

\* bool(v): None, 0, the empty list, dict and str are falsy
py_truthy(v) ==
  CASE v.type = "NoneType" -> FALSE
    [] v.type = "int"      -> v.int # 0
    [] v.type = "list"     -> v.items # <<>>
    [] v.type = "dict"     -> v.keys # {}
    [] v.type = "str"      -> v.str # <<>>

\* analyze on any value: "not text" returns 0.0 for a falsy one; text.strip()
\* raises AttributeError on a truthy value that is not a str
analyze_value(v) ==
  IF ~py_truthy(v) THEN [raised |-> FALSE, ret |-> RInt(0)]
  ELSE IF v.type # "str" THEN [raised |-> TRUE, exc |-> "AttributeError"]
  ELSE [raised |-> FALSE, ret |-> analyze(v.str)]

(***************************************************************************)
(* TMDBService: the rating composer.                                       *)
(***************************************************************************)
\* confidence labels
ConfLow        == <<20302>>                           \* 低
ConfMediumLow  == <<20013, 20302>>                    \* 中低
ConfMedium     == <<20013, 31561>>                    \* 中等
ConfMediumHigh == <<20013, 39640>>                    \* 中高
ConfHigh       == <<39640>>                           \* 高
ConfNoData     == <<26080, 25968, 25454>>             \* 无数据
ConfNoSentiment == <<26080, 24773, 24863, 25968, 25454>>  \* 无情感数据

\* variant: ratios below 0.5 are scaled by 15 instead of 10
audience_score_steep(positive_ratio) ==
  IF RGeq(positive_ratio, R(5, 10)) THEN RMul(positive_ratio, RInt(10))
  ELSE RMul(positive_ratio, RInt(15))

\* variant: the top band starts at 9.5 instead of 9.0
audience_score_bonus(positive_ratio) ==
  IF RGeq(positive_ratio, R(9, 10))
    THEN RAdd(R(95, 10), RMul(RSub(positive_ratio, R(9, 10)), RInt(10)))
  ELSE RMul(positive_ratio, RInt(10))

\* 1. audience score: the if/elif chain over positive_ratio
audience_score_of(positive_ratio) ==
  IF RGeq(positive_ratio, R(9, 10))
    THEN RAdd(RInt(9), RMul(RSub(positive_ratio, R(9, 10)), RInt(10)))
  ELSE IF RGeq(positive_ratio, R(8, 10))
    THEN RAdd(RInt(8), RMul(RSub(positive_ratio, R(8, 10)), RInt(10)))
  ELSE IF RGeq(positive_ratio, R(7, 10))
    THEN RAdd(RInt(7), RMul(RSub(positive_ratio, R(7, 10)), RInt(10)))
  ELSE IF RGeq(positive_ratio, R(6, 10))
    THEN RAdd(RInt(6), RMul(RSub(positive_ratio, R(6, 10)), RInt(10)))
  ELSE IF RGeq(positive_ratio, R(5, 10))
    THEN RAdd(RInt(5), RMul(RSub(positive_ratio, R(5, 10)), RInt(10)))
  ELSE RMul(positive_ratio, RInt(10))

\* variant: the first band tests negative_ratio < 0.1 instead of <= 0.1
_calculate_consistency_score_strict(positive_ratio, negative_ratio, sentiment_results) ==
  IF RGeq(positive_ratio, R(8, 10)) /\ RLess(negative_ratio, R(1, 10)) THEN RInt(9)
  ELSE IF RGeq(positive_ratio, R(7, 10)) /\ RLeq(negative_ratio, R(15, 100)) THEN RInt(8)
  ELSE IF RGeq(positive_ratio, R(6, 10)) /\ RLeq(negative_ratio, R(2, 10)) THEN RInt(7)
  ELSE IF RGeq(positive_ratio, R(5, 10)) THEN RInt(6)
  ELSE IF RGeq(positive_ratio, R(4, 10)) THEN RInt(5)
  ELSE RMax(RSub(RInt(4), RMul(negative_ratio, RInt(5))), RInt(1))

_calculate_consistency_score(positive_ratio, negative_ratio, sentiment_results) ==
  IF RGeq(positive_ratio, R(8, 10)) /\ RLeq(negative_ratio, R(1, 10)) THEN RInt(9)
  ELSE IF RGeq(positive_ratio, R(7, 10)) /\ RLeq(negative_ratio, R(15, 100)) THEN RInt(8)
  ELSE IF RGeq(positive_ratio, R(6, 10)) /\ RLeq(negative_ratio, R(2, 10)) THEN RInt(7)
  ELSE IF RGeq(positive_ratio, R(5, 10)) THEN RInt(6)
  ELSE IF RGeq(positive_ratio, R(4, 10)) THEN RInt(5)
  ELSE RMax(RSub(RInt(4), RMul(negative_ratio, RInt(5))), RInt(1))

\* variant: the first threshold tests > 100 instead of >= 100
_calculate_quantity_weight_off_by_one(total_reviews) ==
  IF total_reviews > 100 THEN RInt(1)
  ELSE IF total_reviews >= 50 THEN R(95, 100)
  ELSE IF total_reviews >= 20 THEN R(9, 10)
  ELSE IF total_reviews >= 10 THEN R(85, 100)
  ELSE IF total_reviews >= 5 THEN R(8, 10)
  ELSE R(7, 10)

_calculate_quantity_weight(total_reviews) ==
  IF total_reviews >= 100 THEN RInt(1)
  ELSE IF total_reviews >= 50 THEN R(95, 100)
  ELSE IF total_reviews >= 20 THEN R(9, 10)
  ELSE IF total_reviews >= 10 THEN R(85, 100)
  ELSE IF total_reviews >= 5 THEN R(8, 10)
  ELSE R(7, 10)

\* statistics.variance(data), len(data) > 1: the exact sample variance
\* (sum of x^2 - (sum of x)^2 / n) / (n - 1); statistics.stdev is its root
variance(data) ==
  LET n        == Len(data)
      squares  == [i \in 1..n |-> RMul(data[i], data[i])]
      sx       == sum(data)
  IN  RDivInt(RSub(sum(squares), RDivInt(RMul(sx, sx), n)), n - 1)

\* sentiment_std < 0.2, i.e. variance < 0.04; a single score has deviation 0
sentiment_std_below(sentiment_results) ==
  IF Len(sentiment_results) > 1
  THEN RLess(variance(sentiment_results), R(4, 100))
  ELSE TRUE

\* abs(sum(sentiment_results) / len(sentiment_results))
avg_sentiment_of(sentiment_results) ==
  RAbs(RDivInt(sum(sentiment_results), Len(sentiment_results)))

_calculate_intensity_score(sentiment_results) ==
  IF sentiment_results = <<>> THEN RInt(5)
  ELSE
    LET avg_sentiment == avg_sentiment_of(sentiment_results)
        intensity == IF RGeq(avg_sentiment, R(7, 10)) THEN RInt(9)
                     ELSE IF RGeq(avg_sentiment, R(5, 10)) THEN RInt(8)
                     ELSE IF RGeq(avg_sentiment, R(3, 10)) THEN RInt(7)
                     ELSE IF RGeq(avg_sentiment, R(15, 100)) THEN RInt(6)
                     ELSE RInt(5)
        bonus == IF sentiment_std_below(sentiment_results)
                 THEN RAdd(intensity, R(5, 10)) ELSE intensity
    IN  RMin(bonus, RInt(10))

\* variant: the top band also asks for negative_ratio <= 0.1
_assess_confidence_negative(total_reviews, positive_ratio, negative_ratio) ==
  IF total_reviews >= 50 /\ RGeq(positive_ratio, R(7, 10)) /\ RLeq(negative_ratio, R(1, 10))
    THEN ConfHigh
  ELSE IF total_reviews >= 20 /\ RGeq(positive_ratio, R(6, 10)) THEN ConfMediumHigh
  ELSE IF total_reviews >= 10 THEN ConfMedium
  ELSE IF total_reviews >= 5 THEN ConfMediumLow
  ELSE ConfLow

_assess_confidence(total_reviews, positive_ratio, negative_ratio) ==
  IF total_reviews >= 50 /\ RGeq(positive_ratio, R(7, 10)) THEN ConfHigh
  ELSE IF total_reviews >= 20 /\ RGeq(positive_ratio, R(6, 10)) THEN ConfMediumHigh
  ELSE IF total_reviews >= 10 THEN ConfMedium
  ELSE IF total_reviews >= 5 THEN ConfMediumLow
  ELSE ConfLow

\* variant: the weights 0.5 / 0.25 / 0.25 instead of 0.6 / 0.25 / 0.15
final_rating_reweighted(audience_score, consistency_score, intensity_score, quantity_weight) ==
  LET base_rating == RAdd(RAdd(RMul(audience_score, R(5, 10)),
                               RMul(consistency_score, R(25, 100))),
                          RMul(intensity_score, R(25, 100)))
  IN  RMin(RMax(RMul(base_rating, quantity_weight), RInt(0)), RInt(10))

\* 5. base_rating and final_rating before the rounding of the result
final_rating_of(audience_score, consistency_score, intensity_score, quantity_weight) ==
  LET base_rating == RAdd(RAdd(RMul(audience_score, R(6, 10)),
                               RMul(consistency_score, R(25, 100))),
                          RMul(intensity_score, R(15, 100)))
  IN  RMin(RMax(RMul(base_rating, quantity_weight), RInt(0)), RInt(10))

\* the result dict (the display string "formula" is left out)
_calculate_comprehensive_rating(positive, neutral, negative, total_reviews, sentiment_results) ==
  LET positive_ratio == IF total_reviews > 0 THEN R(positive, total_reviews) ELSE RInt(0)
      negative_ratio == IF total_reviews > 0 THEN R(negative, total_reviews) ELSE RInt(0)
      audience_score    == audience_score_of(positive_ratio)
      consistency_score == _calculate_consistency_score(positive_ratio, negative_ratio,
                                                        sentiment_results)
      quantity_weight   == _calculate_quantity_weight(total_reviews)
      intensity_score   == _calculate_intensity_score(sentiment_results)
      final_rating      == final_rating_of(audience_score, consistency_score,
                                           intensity_score, quantity_weight)
      confidence        == _assess_confidence(total_reviews, positive_ratio, negative_ratio)
  IN  [final_rating |-> round(final_rating, 1),
       breakdown |-> [audience_score    |-> round(audience_score, 2),
                      consistency_score |-> round(consistency_score, 2),
                      intensity_score   |-> round(intensity_score, 2),
                      quantity_weight   |-> round(quantity_weight, 2),
                      positive_ratio    |-> round(RMul(positive_ratio, RInt(100)), 1),
                      negative_ratio    |-> round(RMul(negative_ratio, RInt(100)), 1)],
       confidence |-> confidence]

(***************************************************************************)
(* TMDBService.calculate_review_based_rating and                           *)
(* SentimentAnalyzer.analyze_reviews: the aggregation over one batch.      *)
(***************************************************************************)
\* review.get('content', '')
content_of(review) == IF "content" \in DOMAIN review THEN review.content ELSE <<>>

\* variant: the "if content" test is dropped, every review is scored
truthy_always(content) == TRUE

\* "if content": a str that is not empty
truthy(content) == content # <<>>

\* the list built by the loop "for review in reviews: if content: append(analyze(content))"
sentiment_results_of(rs) ==
  LET scored == SelectSeq(rs, LAMBDA review : truthy(content_of(review)))
  IN  [i \in 1..Len(scored) |-> analyze(content_of(scored[i]))]

\* sum(1 for s in xs if s > 0.1)
count_positive(xs) == Cardinality({i \in 1..Len(xs) : RGreater(xs[i], R(1, 10))})

\* sum(1 for s in xs if -0.1 <= s <= 0.1)
count_neutral(xs) ==
  Cardinality({i \in 1..Len(xs) : RLeq(R(-1, 10), xs[i]) /\ RLeq(xs[i], R(1, 10))})

\* sum(1 for s in xs if s < -0.1)
count_negative(xs) == Cardinality({i \in 1..Len(xs) : RLess(xs[i], R(-1, 10))})

\* variant: the "if not reviews" early return is missing
not_reviews_never(rs) == FALSE

\* "if not reviews": the fetched batch is empty
not_reviews(rs) == rs = <<>>

\* variant: the "if not sentiment_results" early return is missing
not_sentiment_results_never(xs) == FALSE

\* "if not sentiment_results": no review was scored
not_sentiment_results(xs) == xs = <<>>

\* the zero distribution of the early returns
ZeroDistribution == [positive |-> 0, neutral |-> 0, negative |-> 0]

\* the helpers _calculate_comprehensive_rating calls
ComposerCalls ==
  {"analyze", "_calculate_comprehensive_rating", "_calculate_consistency_score",
   "_calculate_quantity_weight", "_calculate_intensity_score", "_assess_confidence"}

\* the dict returned after the loop and the counts, lines 257-276
rating_dict(rs, sentiment_results, positive, neutral, negative, components) ==
  [ret |-> [rating |-> components.final_rating, review_count |-> Len(rs),
            sentiment_distribution |->
              [positive |-> positive, neutral |-> neutral, negative |-> negative],
            average_sentiment |->
              round(RDivInt(sum(sentiment_results), Len(sentiment_results)), 3),
            rating_breakdown |-> components.breakdown,
            confidence_level |-> components.confidence,
            reviews_sample |-> SubSeq(rs, 1, IF Len(rs) < 5 THEN Len(rs) ELSE 5)],
   called |-> ComposerCalls]

\* "rating_components = self._calculate_comprehensive_rating(positive, neutral,
\* negative, len(sentiment_results), sentiment_results)" and the return
composed_rating(rs, sentiment_results, positive, neutral, negative) ==
  rating_dict(rs, sentiment_results, positive, neutral, negative,
              _calculate_comprehensive_rating(positive, neutral, negative,
                                              Len(sentiment_results), sentiment_results))

\* the code from "if not sentiment_results" on: the early return, else the counts
scored_rating(rs, sentiment_results) ==
  IF not_sentiment_results(sentiment_results)
  THEN [ret |-> [rating |-> RInt(0), review_count |-> Len(rs),
                 sentiment_distribution |-> ZeroDistribution,
                 average_sentiment |-> RInt(0), rating_breakdown |-> <<>>,
                 confidence_level |-> ConfNoSentiment],
        called |-> {}]
  ELSE composed_rating(rs, sentiment_results, count_positive(sentiment_results),
                       count_neutral(sentiment_results), count_negative(sentiment_results))

\* the code after "reviews = await self.get_movie_reviews(movie_id)":
\* ret is the returned dict, called the set of helpers the call ran
calculate_review_based_rating(rs) ==
  IF not_reviews(rs)
  THEN [ret |-> [rating |-> RInt(0), review_count |-> 0,
                 sentiment_distribution |-> ZeroDistribution,
                 average_sentiment |-> RInt(0), rating_breakdown |-> <<>>,
                 confidence_level |-> ConfNoData],
        called |-> {}]
  ELSE scored_rating(rs, sentiment_results_of(rs))

\* analyze(r.get('content', '')), the key of most_positive / most_negative
review_key(review) == analyze(content_of(review))

\* max(reviews, key=...): the first review with the largest key
most_positive_of(rs) ==
  LET key == [j \in 1..Len(rs) |-> review_key(rs[j])]
      i == CHOOSE i \in 1..Len(rs) :
             /\ \A j \in 1..Len(rs) : RLeq(key[j], key[i])
             /\ \A j \in 1..(i - 1) : RLess(key[j], key[i])
  IN  rs[i]

\* min(reviews, key=...): the first review with the smallest key
most_negative_of(rs) ==
  LET key == [j \in 1..Len(rs) |-> review_key(rs[j])]
      i == CHOOSE i \in 1..Len(rs) :
             /\ \A j \in 1..Len(rs) : RLeq(key[i], key[j])
             /\ \A j \in 1..(i - 1) : RLess(key[i], key[j])
  IN  rs[i]

\* SentimentAnalyzer.analyze_reviews (the keyword list is left out)
analyze_reviews(rs) ==
  LET sentiments == sentiment_results_of(rs)
      empty == [average_sentiment |-> RInt(0), sentiment_distribution |-> ZeroDistribution,
                most_positive |-> None, most_negative |-> None]
  IN  IF rs = <<>> THEN empty
      ELSE IF sentiments = <<>> THEN empty
      ELSE [average_sentiment |-> RDivInt(sum(sentiments), Len(sentiments)),
            sentiment_distribution |->
              [positive |-> count_positive(sentiments),
               neutral  |-> count_neutral(sentiments),
               negative |-> count_negative(sentiments)],
            most_positive |-> most_positive_of(rs),
            most_negative |-> most_negative_of(rs),
            total_reviews |-> Len(rs)]

(***************************************************************************)
(* TMDBService.get_movie_reviews: the page requests of one fetch.          *)
(***************************************************************************)
\* the answer to a page request is a failure: an exception or a status other
\* than 200
page_failed(answer) == answer.raises \/ answer.status # 200

\* variant: every page the catalog reports is fetched
pages_to_fetch_uncapped(data) ==
  IF data # <<>> /\ "total_pages" \in DOMAIN data THEN data.total_pages ELSE 1

\* "total_pages = min(data.get('total_pages', 1), 5)"
pages_to_fetch(data) ==
  IF data # <<>> /\ "total_pages" \in DOMAIN data
  THEN (IF data.total_pages < 5 THEN data.total_pages ELSE 5)
  ELSE 1

\* data.get('results', []) of a page that answered 200
results_of(data) == IF data # <<>> /\ "results" \in DOMAIN data THEN data.results ELSE <<>>

\* "reviews.extend(page_data.get('results', []))" under "if status == 200"
extended(reviews_so_far, answer) ==
  IF answer.status = 200 THEN reviews_so_far \o results_of(answer.data) ELSE reviews_so_far

(***************************************************************************)
(* The review job: TMDBService.search_movie, the steps of MovieReviewAgent *)
(* that src/main.py awaits, and the task table of src/main.py.             *)
(***************************************************************************)
\* the fields class MovieInfo declares
MovieInfoFields ==
  {"title", "year", "director", "cast", "genre", "runtime", "plot", "rating",
   "poster_url", "release_date", "budget", "revenue", "popularity", "vote_count",
   "original_language", "production_companies", "keywords"}

\* MovieInfo(**kwargs): a pydantic model keeps the declared fields, gives the
\* missing ones their default (None, or the empty list) and ignores every
\* keyword that is not a declared field
MovieInfo(kwargs) ==
  [f \in MovieInfoFields |-> IF f \in DOMAIN kwargs THEN kwargs[f] ELSE None]

\* hasattr(obj, name) on a model object
hasattr(obj, name) == name \in DOMAIN obj

\* dict.get(key, default)
dict_get(d, key, default) == IF d # <<>> /\ key \in DOMAIN d THEN d[key] ELSE default

\* "x or 0" for an Optional[float]: None and 0.0 are falsy
or_zero(x) == IF x = None \/ x.n = 0 THEN RInt(0) ELSE x

\* int(s) for a str of decimal digits
RECURSIVE int_of(_)
int_of(s) == IF s = <<>> THEN 0 ELSE 10 * int_of(SubSeq(s, 1, Len(s) - 1)) + (s[Len(s)] - 48)

\* s.split('-')[0]: the part before the first '-'
RECURSIVE before_dash(_)
before_dash(s) ==
  IF s = <<>> \/ Head(s) = 45 THEN <<>> ELSE <<Head(s)>> \o before_dash(Tail(s))

\* _build_movie_info(details, credits, keywords): the fields read from details
\* (credits and keywords fill director, cast and keywords, which no step of
\* the job reads; they are left empty)
_build_movie_info(details) ==
  MovieInfo([id |-> dict_get(details, "id", PyNone),
             title |-> dict_get(details, "title", <<>>),
             year |-> IF dict_get(details, "release_date", <<>>) # <<>>
                      THEN int_of(before_dash(details.release_date)) ELSE None,
             plot |-> dict_get(details, "overview", None),
             rating |-> dict_get(details, "vote_average", None),
             release_date |-> dict_get(details, "release_date", None),
             popularity |-> dict_get(details, "popularity", None),
             vote_count |-> dict_get(details, "vote_count", None)])

\* the plot of the placeholder search_movie returns from its except branch
\* (the f-string around the title is shortened to its first words)
PlotUnavailable == <<26080, 27861, 33719, 21462>>  \* 无法获取

\* variant: the except branch of search_movie re-raises what it caught
search_movie_reraising(title, year, answer) ==
  IF answer.search_raises \/ (answer.search_status = 200 /\ answer.results # <<>>
                               /\ answer.details_raises)
  THEN [raised |-> TRUE, exc |-> answer.exc]
  ELSE IF answer.search_status # 200 \/ answer.results = <<>>
       THEN [raised |-> FALSE, ret |-> MovieInfo([title |-> title, year |-> year])]
       ELSE [raised |-> FALSE,
             ret |-> _build_movie_info(IF answer.details_status = 200
                                       THEN answer.details ELSE <<>>)]

\* search_movie(title, year) against a catalog that gives this answer: the
\* search request (a non-200 status gives no results), the details request of
\* the first result (a non-200 status gives {}), and the except branch
search_movie(title, year, answer) ==
  IF answer.search_raises \/ (answer.search_status = 200 /\ answer.results # <<>>
                               /\ answer.details_raises)
  THEN [raised |-> FALSE,
        ret |-> MovieInfo([title |-> title, year |-> year, plot |-> PlotUnavailable])]
  ELSE IF answer.search_status # 200 \/ answer.results = <<>>
       THEN [raised |-> FALSE, ret |-> MovieInfo([title |-> title, year |-> year])]
       ELSE [raised |-> FALSE,
             ret |-> _build_movie_info(IF answer.details_status = 200
                                       THEN answer.details ELSE <<>>)]

\* the context dict _collect_context starts from (the keys the job reads)
EmptyContext ==
  [existing_reviews |-> <<>>, sentiment_analysis |-> <<>>, tmdb_reviews |-> <<>>,
   sources |-> <<>>]

\* the sentiment_analysis dict of _collect_context over the first 10 reviews
sentiment_analysis_of(existing_reviews) ==
  LET first == SubSeq(existing_reviews, 1,
                      IF Len(existing_reviews) < 10 THEN Len(existing_reviews) ELSE 10)
      sentiments == [i \in 1..Len(first) |-> analyze(first[i].content)]
  IN  [positive |-> count_positive(sentiments),
       neutral |-> count_neutral(sentiments),
       negative |-> count_negative(sentiments),
       average_score |-> RDivInt(sum(sentiments), Len(sentiments))]

\* the two assignments of that block: context["tmdb_reviews"] = review_rating
\* and context["existing_reviews"] = the first 20 of tmdb_reviews
reviewed_context(review_rating, tmdb_reviews) ==
  [EmptyContext EXCEPT
     !.tmdb_reviews = review_rating,
     !.existing_reviews =
       [i \in 1..(IF Len(tmdb_reviews) < 20 THEN Len(tmdb_reviews) ELSE 20) |->
          [content |-> content_of(tmdb_reviews[i]),
           author |-> dict_get(tmdb_reviews[i], "author", <<>>)]]]

\* the context after the "if hasattr(full_movie_info, 'id') and
\* full_movie_info.id" block: the review-based rating of the batch the catalog
\* holds and its first 20 reviews, when the object has an id
context_with_reviews(full_movie_info, batch) ==
  IF hasattr(full_movie_info, "id") /\ py_truthy(full_movie_info.id)
  THEN reviewed_context(calculate_review_based_rating(batch).ret, batch)
  ELSE EmptyContext

\* the context after the block "if hasattr(movie_info, 'id') or
\* movie_info.title", whose inner except catches what search_movie raises
searched_context(movie_info, searched, batch) ==
  IF (hasattr(movie_info, "id") \/ movie_info.title # <<>>) /\ ~searched.raised
  THEN context_with_reviews(searched.ret, batch)
  ELSE EmptyContext

\* the block "if context["existing_reviews"]" of _collect_context
with_sentiment_analysis(context) ==
  IF context.existing_reviews # <<>>
  THEN [context EXCEPT
          !.sentiment_analysis = sentiment_analysis_of(context.existing_reviews)]
  ELSE context

\* _collect_context(movie_info, request): the second search_movie call, the
\* review block, the sentiment analysis of the reviews found; an exception is
\* caught and the context built so far is returned (_search_existing_reviews
\* returns no review; the cultural context, read by the prompt only, is left out)
_collect_context(movie_info, answer, batch) ==
  with_sentiment_analysis(
    searched_context(movie_info, search_movie(movie_info.title, movie_info.year, answer),
                     batch))

\* variant: the review-based rating is ignored, the metadata formula always used
_calculate_rating_metadata_only(movie_info, context) ==
  LET base_score == or_zero(movie_info.rating)
      sentiment_score == dict_get(context.sentiment_analysis, "average_score", RInt(0))
      final_score ==
        RAdd(RAdd(RMul(base_score, R(6, 10)),
                  RMul(RAdd(RMul(sentiment_score, RInt(5)), RInt(5)), R(2, 10))),
             RMul(RMin(or_zero(movie_info.popularity), RInt(10)), R(2, 10)))
  IN  RMin(RMax(final_score, RInt(0)), RInt(10))

\* _calculate_rating(movie_info, context)
_calculate_rating(movie_info, context) ==
  LET tmdb_rating == dict_get(context.tmdb_reviews, "rating", RInt(0))
      base_score == or_zero(movie_info.rating)
      sentiment_score == dict_get(context.sentiment_analysis, "average_score", RInt(0))
      final_score ==
        RAdd(RAdd(RMul(base_score, R(6, 10)),
                  RMul(RAdd(RMul(sentiment_score, RInt(5)), RInt(5)), R(2, 10))),
             RMul(RMin(or_zero(movie_info.popularity), RInt(10)), R(2, 10)))
  IN  IF RGreater(tmdb_rating, RInt(0))
      THEN tmdb_rating
      ELSE RMin(RMax(final_score, RInt(0)), RInt(10))

\* s.replace(old, ''): s without the occurrences of old, left to right
RECURSIVE without(_, _)
without(s, old) ==
  IF Len(s) < Len(old) THEN s
  ELSE IF SubSeq(s, 1, Len(old)) = old THEN without(SubSeq(s, Len(old) + 1, Len(s)), old)
  ELSE <<Head(s)>> \o without(Tail(s), old)

\* len(review_content.replace(' ', '').replace('\\n', '')): the second
\* pattern is the two characters backslash and n
word_count_of(review_content) == Len(without(without(review_content, <<32>>), <<92, 110>>))

\* ReviewResponse(...) of step 6 (generated_at, the clock, is left out)
ReviewResponse(movie_info, rating_value, review_content, context, request) ==
  [title |-> movie_info.title, year |-> movie_info.year, rating |-> rating_value,
   review |-> review_content, pros |-> <<>>, cons |-> <<>>,
   sources |-> context.sources, word_count |-> word_count_of(review_content),
   review_style |-> request.review_style]

\* current_step labels of main.py
StepInit == <<21021, 22987, 21270>>  \* 初始化
StepSearch == <<25628, 32034, 30005, 24433, 20449, 24687>>  \* 搜索电影信息
StepCollect == <<25910, 38598, 35266, 20247, 35780, 35770>>  \* 收集观众评论
StepSentiment == <<24773, 24863, 20998, 26512>>  \* 情感分析
StepRating == <<35745, 31639, 35780, 20998>>  \* 计算评分
StepGenerate == <<29983, 25104, 24433, 35780>>  \* 生成影评
StepFinal == <<26368, 32456, 22788, 29702>>  \* 最终处理
StepDone == <<23436, 25104>>  \* 完成
StepError == <<38169, 35823>>  \* 错误

\* GenerationStatus(task_id=..., status="pending", progress=0, ...) of
\* generate_review (the message, a sentence for the user, is left out)
GenerationStatus(task_id) ==
  [task_id |-> task_id, status |-> "pending", progress |-> 0,
   current_step |-> StepInit, estimated_time_left |-> None, result |-> None,
   error |-> None]

\* the assignments at the head of a step of _generate_review_with_progress
in_step(task, progress, current_step) ==
  [task EXCEPT !.progress = progress, !.current_step = current_step]

\* the assignments after "# 完成"
completed(task, response) ==
  [task EXCEPT !.progress = 100, !.status = "completed", !.current_step = StepDone,
               !.result = response]

\* variant: the except branch also puts the progress back to 0
failed_rewinding(task, e) ==
  [task EXCEPT !.status = "error", !.current_step = StepError, !.error = PyStr(e),
               !.progress = 0]

\* the except branch: task.error = str(e)
failed(task, e) ==
  [task EXCEPT !.status = "error", !.current_step = StepError, !.error = PyStr(e)]

\* variant: an unknown id is answered with an empty 200
get_review_status_lenient(tasks, task_id) ==
  IF task_id \notin DOMAIN tasks
  THEN [status_code |-> 200, body |-> None]
  ELSE [status_code |-> 200, body |-> tasks[task_id]]

\* get_review_status(task_id)
get_review_status(tasks, task_id) ==
  IF task_id \notin DOMAIN tasks
  THEN [status_code |-> 404, body |-> None]
  ELSE [status_code |-> 200, body |-> tasks[task_id]]

\* get_review_result(task_id)
get_review_result(tasks, task_id) ==
  IF task_id \notin DOMAIN tasks
  THEN [status_code |-> 404, body |-> None]
  ELSE IF tasks[task_id].status # "completed"
       THEN [status_code |-> 400, body |-> None]
       ELSE [status_code |-> 200, body |-> tasks[task_id].result]

\* "review_style: str" of ReviewResponse: pydantic rejects None for a field that
\* is not Optional, ReviewResponse(...) raises a ValidationError
ReviewResponse_validates(review_style) == review_style # None

ExcValidation == <<49, 32, 118, 97, 108, 105, 100, 97, 116, 105, 111, 110, 32, 101, 114, 114, 111, 114, 32, 102, 111, 114, 32, 82, 101, 118, 105, 101, 119, 82, 101, 115, 112, 111, 110, 115, 101>>  \* 1 validation error for ReviewResponse
ErrorPrefix == <<29983, 25104, 24433, 35780, 26102, 20986, 29616, 38169, 35823, 58, 32>>  \* 生成影评时出现错误:

\* how a generate_review call of the agent ends: it returns ret or raises exc;
\* failed and error tell whether and why its try block was left by an exception
returned(ret, failed_with) ==
  [raised |-> FALSE, exc |-> <<>>, ret |-> ret, failed |-> failed_with # <<>>,
   error |-> failed_with]
raising(exc, failed_with) ==
  [raised |-> TRUE, exc |-> exc, ret |-> None, failed |-> TRUE, error |-> failed_with]

\* the except branch of MovieReviewAgent.generate_review: the ReviewResponse
\* that carries the error text (the keywords ReviewResponse does not declare,
\* rating_breakdown and the like, are dropped by pydantic)
generate_review_failed(request, e) ==
  IF ReviewResponse_validates(request.review_style)
  THEN returned([title |-> request.title, year |-> request.year, rating |-> RInt(0),
                 review |-> ErrorPrefix \o e, pros |-> <<>>, cons |-> <<>>,
                 sources |-> <<>>, word_count |-> 0,
                 review_style |-> request.review_style], e)
  ELSE raising(ExcValidation, e)

\* the end of the try block of generate_review: rating, word count (spaces and
\* line feeds taken out) and the ReviewResponse
generate_review_rated(request, movie_info, context, review_content) ==
  IF ReviewResponse_validates(request.review_style)
  THEN returned([ReviewResponse(movie_info, _calculate_rating(movie_info, context),
                                review_content, context, request)
                   EXCEPT !.word_count =
                            Len(without(without(review_content, <<32>>), <<10>>))],
                <<>>)
  ELSE generate_review_failed(request, ExcValidation)

\* the try block of generate_review from "await self._collect_context" on
generate_review_found(request, movie_info, context, llm_answer) ==
  IF llm_answer.raises
  THEN generate_review_failed(request, llm_answer.exc)
  ELSE generate_review_rated(request, movie_info, context, llm_answer.content)

\* the try block of generate_review from the return of _get_movie_info on
generate_review_searched(request, searched, second_answer, tmdb_reviews, llm_answer) ==
  IF searched.raised
  THEN generate_review_failed(request, searched.exc)
  ELSE generate_review_found(request, searched.ret,
                             _collect_context(searched.ret, second_answer, tmdb_reviews),
                             llm_answer)

\* MovieReviewAgent.generate_review(request) with the answers of the catalog to
\* its two searches, the reviews the catalog holds and the answer of the
\* language model
generate_review(request, first_answer, second_answer, tmdb_reviews, llm_answer) ==
  generate_review_searched(request,
                           search_movie(request.title, request.year, first_answer),
                           second_answer, tmdb_reviews, llm_answer)

\* the answer of generate_batch_reviews once asyncio.gather returned or raised
batch_answer(results) ==
  IF \E i \in DOMAIN results : results[i] # None /\ results[i].raised
  THEN [status_code |-> 500,
        detail |-> {results[i].exc : i \in {j \in DOMAIN results :
                                              results[j] # None /\ results[j].raised}},
        body |-> None]
  ELSE [status_code |-> 200, detail |-> {},
        body |-> [reviews |-> [i \in DOMAIN results |-> results[i].ret],
                  comparison_analysis |-> None,
                  total_movies |-> Len(results)]]

\* self.session = None of TMDBService.__init__: no session
NoSession == 0

\* aiohttp.ClientSession(): one more session, open, made by the given block
with_new_session(all_sessions, block) ==
  Append(all_sessions, [opened_by |-> block, closed_by |-> {}])

\* "if not self.session: self.session = aiohttp.ClientSession()" at the head of
\* search_movie: the session the service holds afterwards
session_of_search(current, all_sessions) ==
  IF current = NoSession THEN Len(all_sessions) + 1 ELSE current

\* __aexit__: "if self.session: await self.session.close()" closes the session
\* the service holds when the block is left
closed_at_exit(all_sessions, current, block) ==
  IF current # NoSession
  THEN [all_sessions EXCEPT ![current].closed_by = @ \cup {block}]
  ELSE all_sessions

(***************************************************************************)
(* Inputs.                                                                 *)
(***************************************************************************)
\* longest generated text
MaxTextLen == 5

\* longest generated review batch
MaxReviews == 3

\* number of "async with self.tmdb_service" blocks that run interleaved
MaxBlocks == 3

\* largest number of movies in a batch request
MaxBatch == 2

\* largest review count of the densely enumerated composer inputs
MaxSmallTotal == 12

\* largest review count of the two-call comparisons
MaxCompareTotal == 11

\* code points of the generated texts: 不 很 好 差 and the space
Alphabet == {19981, 24456, 22909, 24046, 32}

TextTestPositive == <<36825,37096,30005,24433,22826,26834,20102,65292,24378,28872,25512,33616>>  \* 这部电影太棒了，强烈推荐
TextTestNegative == <<36825,37096,30005,24433,24456,31967,31957,65292,19981,25512,33616>>  \* 这部电影很糟糕，不推荐
TextTestNeutral == <<36825,37096,30005,24433,19968,33324,33324>>  \* 这部电影一般般
TextScenarioPos == <<22826,26834,20102,65292,38750,24120,31934,24425>>  \* 太棒了，非常精彩
TextScenarioNeg == <<24456,24046,65292,28010,36153,26102,38388>>  \* 很差，浪费时间
TextScenarioNeu == <<19968,33324>>  \* 一般
TextUpper == <<78,111,116,32,66,65,68>>  \* Not BAD
TextRave == <<23436,32654,32463,20856,20986,33394,20248,31168,24863,20154,38663,25788,21916,27426,20540,24471,28385,24847,24320,24515,24555,20048,20139,21463,33258,28982,30495,23454,29983,21160,32039,20945,24039,22937,29992,24515>>  \* 完美经典出色优秀感人震撼喜欢值得满意开心快乐享受自然真实生动紧凑巧妙用心
TextPan == <<31967,31957,22403,22334,22833,26395,21518,24724,26080,32842,23604,23596,20570,20316,22840,24352,29983,30828,32769,22871,20439,22871,25302,27795,28151,20081,29301,24378,31354,27934,20047,21619,21333,35843,35752,21388,24694,24515>>  \* 糟糕垃圾失望后悔无聊尴尬做作夸张生硬老套俗套拖沓混乱牵强空洞乏味单调讨厌恶心
TextBlank == <<32, 32>>  \* two spaces

\* texts of the tests and scenarios, and two long texts that saturate the score
ScenarioTexts ==
  {TextTestPositive, TextTestNegative, TextTestNeutral, TextScenarioPos,
   TextScenarioNeg, TextScenarioNeu, TextUpper, TextRave, TextPan, TextBlank}

\* every text over Alphabet of at most MaxTextLen code points, and the scenarios
TextInputs ==
  UNION {[1..k -> Alphabet] : k \in 0..MaxTextLen} \cup ScenarioTexts

\* values that are not text: None, numbers, lists and dicts, empty and not
NonTextValues ==
  {PyNone, PyInt(0), PyInt(5), PyList(<<>>), PyList(<<1>>), PyDict({}), PyDict({"a"})}

\* arguments of analyze: the non-text values and every input text
ValueInputs == NonTextValues \cup {PyStr(t) : t \in TextInputs}

\* review dicts of a fetched batch: with a text, with an empty text, and
\* without the 'content' key
ReviewInputs ==
  {[content |-> c] : c \in {<<>>, TextBlank, TextScenarioPos, TextScenarioNeg,
                            TextScenarioNeu}}
    \cup {[author |-> <<97>>]}

\* every batch of at most MaxReviews reviews
BatchInputs == UNION {[1..k -> ReviewInputs] : k \in 0..MaxReviews}

\* the score analyze returns for a net tally of half_units / 2
ScoreOfTally(half_units) ==
  RMax(RMin(RMul(R(half_units, 2 * max_score), RInt(12)), RInt(1)), RInt(-1))

\* scores above 0.1, inside [-0.1, 0.1] and below -0.1
PositiveScores == {ScoreOfTally(4), ScoreOfTally(34)}
NeutralScores  == {ScoreOfTally(0), ScoreOfTally(3)}
NegativeScores == {ScoreOfTally(-4), ScoreOfTally(-34)}

\* xs repeated: count copies of x
Repeat(x, count) == [i \in 1..count |-> x]

\* the arguments calculate_review_based_rating passes for a batch with the
\* given numbers of positive, neutral and negative scores
ComposerInput(p, u, n, sp, su, sn) ==
  [positive |-> p, neutral |-> u, negative |-> n, total_reviews |-> p + u + n,
   sentiment_results |-> Repeat(sp, p) \o Repeat(su, u) \o Repeat(sn, n)]

\* review counts at which _calculate_quantity_weight and _assess_confidence step
CountThresholds == {5, 10, 20, 50, 100}

\* review counts of the composer inputs: the small ones, both sides of every
\* threshold, and the 60 reviews of the documented scenario
Totals ==
  (1..MaxSmallTotal) \cup CountThresholds \cup {t - 1 : t \in CountThresholds} \cup {60}

\* review counts of the two-call comparisons
CompareTotals == 1..MaxCompareTotal

\* number of review jobs submitted
MaxJobs == 2

\* the agent lifespan() builds when both API keys are configured
MovieReviewAgent == [kimi_api_key |-> TRUE, tmdb_api_key |-> TRUE]

TitleFightClub == <<25615, 20987, 20465, 20048, 37096>>  \* 搏击俱乐部
StyleProfessional == <<112, 114, 111, 102, 101, 115, 115, 105, 111, 110, 97, 108>>  \* professional
ReleaseDate == <<49, 57, 57, 57, 45, 49, 48, 45, 49, 53>>  \* 1999-10-15

\* ReviewRequest bodies of POST /api/review
RequestInputs ==
  {[title |-> TitleFightClub, year |-> None, review_style |-> StyleProfessional]}

StyleCasual == <<99, 97, 115, 117, 97, 108>>  \* casual

\* the movies of a BatchReviewRequest: review_style is Optional[str], a body
\* may give it as null
BatchMovieInputs ==
  {[title |-> TitleFightClub, year |-> None, review_style |-> StyleProfessional],
   [title |-> TitleFightClub, year |-> None, review_style |-> StyleCasual],
   [title |-> TitleFightClub, year |-> None, review_style |-> None]}

\* the movies lists of POST /api/review/batch (comparison_mode false)
BatchRequestInputs ==
  UNION {[1..n -> BatchMovieInputs] : n \in 0..MaxBatch}

\* the details the catalog holds for the movie
CatalogDetails ==
  [id |-> PyInt(550), title |-> TitleFightClub, release_date |-> ReleaseDate,
   overview |-> <<>>, vote_average |-> R(42, 5), popularity |-> R(61, 1),
   vote_count |-> 26280]

\* the reviews the catalog holds for the movie
CatalogReviews ==
  <<[content |-> TextScenarioPos], [content |-> TextScenarioNeg],
    [content |-> TextScenarioNeu]>>

ExcConnection == <<67, 97, 110, 110, 111, 116, 32, 99, 111, 110, 110, 101, 99, 116, 32, 116, 111, 32, 104, 111, 115, 116>>  \* Cannot connect to host
ExcQuota == <<82, 97, 116, 101, 32, 108, 105, 109, 105, 116, 32, 114, 101, 97, 99, 104, 101, 100>>  \* Rate limit reached

\* what the catalog answers to the requests of one search_movie call: the
\* movie, no result, a quota error (HTTP 429) on the search or on the details
\* request, a connection error
CatalogAnswers ==
  {[search_raises |-> FALSE, search_status |-> 200, results |-> <<[id |-> PyInt(550)]>>,
    details_raises |-> FALSE, details_status |-> 200, details |-> CatalogDetails,
    exc |-> <<>>],
   [search_raises |-> FALSE, search_status |-> 200, results |-> <<>>,
    details_raises |-> FALSE, details_status |-> 200, details |-> <<>>, exc |-> <<>>],
   [search_raises |-> FALSE, search_status |-> 429, results |-> <<>>,
    details_raises |-> FALSE, details_status |-> 200, details |-> <<>>, exc |-> <<>>],
   [search_raises |-> FALSE, search_status |-> 200, results |-> <<[id |-> PyInt(550)]>>,
    details_raises |-> FALSE, details_status |-> 429, details |-> <<>>, exc |-> <<>>],
   [search_raises |-> TRUE, search_status |-> 200, results |-> <<>>,
    details_raises |-> FALSE, details_status |-> 200, details |-> <<>>,
    exc |-> ExcConnection],
   [search_raises |-> FALSE, search_status |-> 200, results |-> <<[id |-> PyInt(550)]>>,
    details_raises |-> TRUE, details_status |-> 200, details |-> <<>>,
    exc |-> ExcConnection]}

\* the answer is a failure of the catalog: a status other than 200 or an exception
catalog_failed(answer) ==
  \/ answer.search_raises
  \/ answer.search_status # 200
  \/ /\ answer.results # <<>>
     /\ answer.details_raises \/ answer.details_status # 200

\* the answer holds the movie: a search result and its details, with the id
catalog_found(answer) ==
  /\ ~catalog_failed(answer)
  /\ answer.results # <<>>
  /\ py_truthy(dict_get(answer.details, "id", PyNone))

\* MovieInfo objects _calculate_rating is called with: without and with a
\* catalog rating (vote_average) and popularity
MovieInfoInputs ==
  {MovieInfo([title |-> TitleFightClub]),
   MovieInfo([title |-> TitleFightClub, rating |-> R(42, 5), popularity |-> R(61, 1)]),
   MovieInfo([title |-> TitleFightClub, rating |-> RInt(10), popularity |-> R(7, 2)]),
   MovieInfo([title |-> TitleFightClub, rating |-> RInt(0), popularity |-> RInt(0)])}

ReviewText == <<22909, 32, 29255, 10>>  \* 好 片 and a line break

\* how llm.ainvoke ends: a response with a content, or an exception
LanguageModelAnswers ==
  {[raises |-> FALSE, content |-> ReviewText, exc |-> <<>>],
   [raises |-> TRUE, content |-> <<>>, exc |-> ExcQuota]}

\* largest total_pages the catalog reports for a movie's reviews
MaxTotalPages == 6

\* the review a page holds: its author names the page
PageReview(page_num, content) == [author |-> <<48 + page_num>>, content |-> content]

\* answers to a request of a page after the first: one review, no review, a
\* server error, a connection error
PageAnswers(page_num) ==
  {[raises |-> FALSE, status |-> 200,
    data |-> [results |-> <<PageReview(page_num, TextScenarioPos)>>]],
   [raises |-> FALSE, status |-> 200, data |-> [results |-> <<>>]],
   [raises |-> FALSE, status |-> 500, data |-> <<>>],
   [raises |-> TRUE, status |-> 0, data |-> <<>>]}

\* answers to the request of the first page: a page of one review with the
\* total_pages the catalog reports, or without that key, and the failures
FirstPageAnswers ==
  {[raises |-> FALSE, status |-> 200,
    data |-> [results |-> <<PageReview(1, c)>>, total_pages |-> n]] :
      c \in {TextScenarioPos, TextScenarioNeg}, n \in 1..MaxTotalPages}
  \cup {[raises |-> FALSE, status |-> 200, data |-> [results |-> <<>>, total_pages |-> 0]],
        [raises |-> FALSE, status |-> 200,
         data |-> [results |-> <<PageReview(1, TextScenarioNeu)>>]],
        [raises |-> FALSE, status |-> 429, data |-> <<>>],
        [raises |-> TRUE, status |-> 0, data |-> <<>>]}

(***************************************************************************)
(* State machine.                                                          *)
(***************************************************************************)
\* score triples of the composer inputs with total_reviews = t: every
\* combination for the small counts, the extreme scores for the large ones
ScoreChoices(t) ==
  IF t <= MaxSmallTotal
  THEN PositiveScores \X NeutralScores \X NegativeScores
  ELSE {<<ScoreOfTally(34), ScoreOfTally(0), ScoreOfTally(-34)>>}

\* no analyze call has been made
ScorerIdle ==
  /\ text = <<>>
  /\ score = None
  /\ value = None
  /\ outcome = None

\* no batch has been fetched or rated
ServiceIdle ==
  /\ pc = "idle"
  /\ reviews = <<>>
  /\ rating = None
  /\ called = {}
  /\ summary = None

\* the composer has not been called
ComposerIdle ==
  /\ composer_input = None
  /\ rating_components = None
  /\ second_input = None
  /\ second_components = None

\* get_movie_reviews has not requested a page
FetchIdle ==
  /\ requested = <<>>
  /\ responses = <<>>
  /\ total_pages = None
  /\ collected = <<>>

\* the web application has not started: no agent, no task, no request answered
JobsIdle ==
  /\ review_agent = None
  /\ review_tasks = <<>>
  /\ coroutines = <<>>
  /\ http_response = None

\* _calculate_rating has not been called
AgentIdle ==
  /\ rated_movie_info = None
  /\ rated_context = None
  /\ calculated_rating = None

\* no "async with" block of the shared TMDBService was entered
SessionsIdle ==
  /\ session = NoSession
  /\ sessions = <<>>
  /\ blocks = [block \in 1..MaxBlocks |-> [pc |-> "before", own |-> NoSession, used |-> {}]]

\* no batch request was posted
BatchIdle ==
  /\ batch_pc = "idle"
  /\ batch_request = <<>>
  /\ batch_results = <<>>
  /\ batch_response = None

\* nothing has been called
Idle ==
  /\ ScorerIdle
  /\ ServiceIdle
  /\ ComposerIdle
  /\ FetchIdle
  /\ JobsIdle
  /\ AgentIdle
  /\ SessionsIdle
  /\ BatchIdle

\* the call analyzer.analyze(text)
Analyze ==
  /\ value = None
  /\ score = None
  /\ score' = analyze(text)
  /\ UNCHANGED <<text, value, outcome, service_vars, composer_vars, fetch_vars, job_vars, agent_vars,
                 session_vars, batch_vars>>

\* the call analyzer.analyze(value) with a value of any type
AnalyzeValue ==
  /\ value # None
  /\ outcome = None
  /\ outcome' = analyze_value(value)
  /\ UNCHANGED <<text, score, value, service_vars, composer_vars, fetch_vars, job_vars, agent_vars,
                 session_vars, batch_vars>>

\* calculate_review_based_rating awaits get_movie_reviews, which returns a batch
GetMovieReviews ==
  /\ pc = "idle"
  /\ \E batch \in BatchInputs : reviews' = batch
  /\ pc' = "fetched"
  /\ UNCHANGED <<rating, called, summary, scorer_vars, composer_vars, fetch_vars, job_vars, agent_vars,
                 session_vars, batch_vars>>

\* calculate_review_based_rating runs on the fetched batch and returns
CalculateReviewBasedRating ==
  /\ pc = "fetched"
  /\ rating = None
  /\ LET call == calculate_review_based_rating(reviews)
     IN  /\ rating' = call.ret
         /\ called' = call.called
  /\ UNCHANGED <<pc, reviews, summary, scorer_vars, composer_vars, fetch_vars, job_vars, agent_vars,
                 session_vars, batch_vars>>

\* analyzer.analyze_reviews(reviews) on the same batch
AnalyzeReviews ==
  /\ pc = "fetched"
  /\ summary = None
  /\ summary' = analyze_reviews(reviews)
  /\ UNCHANGED <<pc, reviews, rating, called, scorer_vars, composer_vars, fetch_vars, job_vars, agent_vars,
                 session_vars, batch_vars>>

\* the composer call with the given arguments
compose(input) ==
  _calculate_comprehensive_rating(input.positive, input.neutral, input.negative,
                                  input.total_reviews, input.sentiment_results)

\* the call of _calculate_comprehensive_rating
ComposeRating ==
  /\ composer_input # None
  /\ rating_components = None
  /\ rating_components' = compose(composer_input)
  /\ UNCHANGED <<composer_input, second_input, second_components, scorer_vars,
                 service_vars, fetch_vars, job_vars, agent_vars,
                 session_vars, batch_vars>>

\* a second call of _calculate_comprehensive_rating, after the first returned
ComposeSecond ==
  /\ second_input # None
  /\ rating_components # None
  /\ second_components = None
  /\ second_components' = compose(second_input)
  /\ UNCHANGED <<composer_input, rating_components, second_input, scorer_vars,
                 service_vars, fetch_vars, job_vars, agent_vars,
                 session_vars, batch_vars>>

\* the scorer: one call of analyze on any input text
InitScorer ==
  /\ text \in TextInputs
  /\ score = None
  /\ value = None
  /\ outcome = None
  /\ ServiceIdle
  /\ ComposerIdle
  /\ FetchIdle
  /\ JobsIdle
  /\ AgentIdle
  /\ SessionsIdle
  /\ BatchIdle

NextScorer == Analyze
SpecScorer == InitScorer /\ [][NextScorer]_vars

\* the scorer called with a value of any type
InitValue ==
  /\ value \in ValueInputs
  /\ outcome = None
  /\ text = <<>>
  /\ score = None
  /\ ServiceIdle
  /\ ComposerIdle
  /\ FetchIdle
  /\ JobsIdle
  /\ AgentIdle
  /\ SessionsIdle
  /\ BatchIdle

NextValue == AnalyzeValue
SpecValue == InitValue /\ [][NextValue]_vars

\* the review-based rating of a fetched batch
Init == Idle
Next == GetMovieReviews \/ CalculateReviewBasedRating \/ AnalyzeReviews
Spec == Init /\ [][Next]_vars

\* the composer: one call on any input
InitCompose ==
  /\ \E t \in Totals :
       \E p \in 0..t :
         \E n \in 0..(t - p) :
           \E s \in ScoreChoices(t) :
             composer_input = ComposerInput(p, t - p - n, n, s[1], s[2], s[3])
  /\ rating_components = None
  /\ second_input = None
  /\ second_components = None
  /\ ScorerIdle
  /\ ServiceIdle
  /\ FetchIdle
  /\ JobsIdle
  /\ AgentIdle
  /\ SessionsIdle
  /\ BatchIdle

NextCompose == ComposeRating
SpecCompose == InitCompose /\ [][NextCompose]_vars

\* two composer calls with the same review count and the same number of
\* negative reviews, the second with more positive reviews
InitCompare ==
  /\ \E t \in CompareTotals :
       \E n \in 0..t :
         \E p1 \in 0..(t - n) :
           \E p2 \in (p1 + 1)..(t - n) :
             \E s1 \in ScoreChoices(t), s2 \in ScoreChoices(t) :
               /\ composer_input = ComposerInput(p1, t - p1 - n, n, s1[1], s1[2], s1[3])
               /\ second_input = ComposerInput(p2, t - p2 - n, n, s2[1], s2[2], s2[3])
  /\ rating_components = None
  /\ second_components = None
  /\ ScorerIdle
  /\ ServiceIdle
  /\ FetchIdle
  /\ JobsIdle
  /\ AgentIdle
  /\ SessionsIdle
  /\ BatchIdle

NextCompare == ComposeRating \/ ComposeSecond
SpecCompare == InitCompare /\ [][NextCompare]_vars

\* get_movie_reviews up to the answer to its first request: the except branch
\* and a status other than 200 return [], a single page returns its results
RequestFirstPage ==
  /\ pc = "idle"
  /\ requested = <<>>
  /\ \E answer \in FirstPageAnswers :
       /\ requested' = <<1>>
       /\ responses' = <<answer>>
       /\ IF page_failed(answer)
          THEN /\ collected' = <<>>
               /\ total_pages' = total_pages
               /\ reviews' = <<>>
               /\ pc' = "fetched"
          ELSE /\ collected' = results_of(answer.data)
               /\ total_pages' = pages_to_fetch(answer.data)
               /\ IF pages_to_fetch(answer.data) < 2
                  THEN reviews' = results_of(answer.data) /\ pc' = "fetched"
                  ELSE reviews' = <<>> /\ pc' = "paging"
  /\ UNCHANGED <<rating, called, summary, scorer_vars, composer_vars, job_vars, agent_vars,
                 session_vars, batch_vars>>

\* one turn of "for page_num in range(2, total_pages + 1)": the answer to the
\* request of the next page; the except branch returns [], the last page
\* returns the reviews collected
RequestNextPage ==
  /\ pc = "paging"
  /\ LET page_num == Len(requested) + 1
     IN  \E answer \in PageAnswers(page_num) :
           /\ requested' = Append(requested, page_num)
           /\ responses' = Append(responses, answer)
           /\ IF answer.raises
              THEN /\ collected' = <<>>
                   /\ reviews' = <<>>
                   /\ pc' = "fetched"
              ELSE /\ collected' = extended(collected, answer)
                   /\ IF page_num = total_pages
                      THEN reviews' = extended(collected, answer) /\ pc' = "fetched"
                      ELSE reviews' = <<>> /\ pc' = "paging"
  /\ UNCHANGED <<total_pages, rating, called, summary, scorer_vars, composer_vars, job_vars, agent_vars,
                 session_vars, batch_vars>>

\* the task table and the coroutine table with the entry of one task replaced
with_task(task_id, task) == [review_tasks EXCEPT ![task_id] = task]
with_coroutine(task_id, coroutine) == [coroutines EXCEPT ![task_id] = coroutine]

\* POST /api/review, generate_review: 503 without an agent, else a new task in
\* the table and its coroutine scheduled (uuid4: an id that was never issued)
GenerateReview ==
  /\ Len(review_tasks) < MaxJobs
  /\ \E request \in RequestInputs :
       IF review_agent = None
       THEN /\ http_response' = [endpoint |-> "generate_review", task_id |-> 0,
                                 status_code |-> 503, body |-> None]
            /\ UNCHANGED <<review_tasks, coroutines>>
       ELSE LET task_id == Len(review_tasks) + 1
            IN  /\ review_tasks' = Append(review_tasks, GenerationStatus(task_id))
                /\ coroutines' =
                     Append(coroutines,
                            [pc |-> "created", request |-> request, movie_info |-> None,
                             context |-> None, rating |-> None, failures |-> {},
                             found |-> FALSE])
                /\ http_response' = [endpoint |-> "generate_review", task_id |-> task_id,
                                     status_code |-> 200, body |-> [task_id |-> task_id]]
  /\ UNCHANGED <<review_agent, scorer_vars, service_vars, composer_vars, fetch_vars, agent_vars,
                 session_vars, batch_vars>>

\* _generate_review_with_progress starts: step 1 up to "await _get_movie_info"
StartJob(task_id) ==
  /\ task_id \in DOMAIN coroutines
  /\ coroutines[task_id].pc = "created"
  /\ review_tasks' =
       with_task(task_id, in_step([review_tasks[task_id] EXCEPT !.status = "processing"],
                                  10, StepSearch))
  /\ coroutines' = with_coroutine(task_id, [coroutines[task_id] EXCEPT !.pc = "get_movie_info"])
  /\ UNCHANGED <<review_agent, http_response, scorer_vars, service_vars, composer_vars,
                 fetch_vars, agent_vars,
                 session_vars, batch_vars>>

\* _get_movie_info returns (or raises into the except branch); step 2 up to
\* "await _collect_context"
GotMovieInfo(task_id) ==
  /\ task_id \in DOMAIN coroutines
  /\ coroutines[task_id].pc = "get_movie_info"
  /\ \E answer \in CatalogAnswers :
       LET coroutine == coroutines[task_id]
           searched == search_movie(coroutine.request.title, coroutine.request.year, answer)
           failures == IF catalog_failed(answer)
                       THEN coroutine.failures \cup {"catalog"} ELSE coroutine.failures
       IN  IF searched.raised
           THEN /\ review_tasks' = with_task(task_id, failed(review_tasks[task_id], searched.exc))
                /\ coroutines' =
                     with_coroutine(task_id, [coroutine EXCEPT !.pc = "done",
                                                                !.failures = failures])
           ELSE /\ review_tasks' =
                     with_task(task_id, in_step(review_tasks[task_id], 25, StepCollect))
                /\ coroutines' =
                     with_coroutine(task_id, [coroutine EXCEPT !.pc = "collect_context",
                                                                !.movie_info = searched.ret,
                                                                !.failures = failures])
  /\ UNCHANGED <<review_agent, http_response, scorer_vars, service_vars, composer_vars,
                 fetch_vars, agent_vars,
                 session_vars, batch_vars>>

\* the locals of the coroutine once _collect_context and _calculate_rating
\* returned; failures and found record whether the catalog failed during the
\* second search and whether it answered with the movie and its id
rated(coroutine, context, catalog_failure, found) ==
  [coroutine EXCEPT
     !.pc = "generate_review_content",
     !.context = context,
     !.rating = _calculate_rating(coroutine.movie_info, context),
     !.failures = IF coroutine.movie_info.title # <<>> /\ catalog_failure
                  THEN coroutine.failures \cup {"catalog"} ELSE coroutine.failures,
     !.found = coroutine.movie_info.title # <<>> /\ found]

\* _collect_context returns; steps 3 and 4 with "await _calculate_rating", which
\* never suspends; step 5 up to "await _generate_review_content"
GotContext(task_id) ==
  /\ task_id \in DOMAIN coroutines
  /\ coroutines[task_id].pc = "collect_context"
  /\ \E answer \in CatalogAnswers :
       /\ review_tasks' =
            with_task(task_id,
                      in_step(in_step(in_step(review_tasks[task_id], 40, StepSentiment),
                                      55, StepRating),
                              70, StepGenerate))
       /\ coroutines' =
            with_coroutine(task_id,
                           rated(coroutines[task_id],
                                 _collect_context(coroutines[task_id].movie_info, answer,
                                                  CatalogReviews),
                                 catalog_failed(answer), catalog_found(answer)))
  /\ UNCHANGED <<review_agent, http_response, scorer_vars, service_vars, composer_vars,
                 fetch_vars, agent_vars,
                 session_vars, batch_vars>>

\* _generate_review_content returns or llm.ainvoke raises; step 6 and the
\* completion, or the except branch
GotReviewContent(task_id) ==
  /\ task_id \in DOMAIN coroutines
  /\ coroutines[task_id].pc = "generate_review_content"
  /\ \E answer \in LanguageModelAnswers :
       LET coroutine == coroutines[task_id]
       IN  IF answer.raises
           THEN /\ review_tasks' = with_task(task_id, failed(review_tasks[task_id], answer.exc))
                /\ coroutines' =
                     with_coroutine(task_id,
                                    [coroutine EXCEPT !.pc = "done",
                                                      !.failures = coroutine.failures \cup {"llm"}])
           ELSE /\ review_tasks' =
                     with_task(task_id,
                               completed(in_step(review_tasks[task_id], 90, StepFinal),
                                         ReviewResponse(coroutine.movie_info, coroutine.rating,
                                                        answer.content, coroutine.context,
                                                        coroutine.request)))
                /\ coroutines' = with_coroutine(task_id, [coroutine EXCEPT !.pc = "done"])
  /\ UNCHANGED <<review_agent, http_response, scorer_vars, service_vars, composer_vars,
                 fetch_vars, agent_vars,
                 session_vars, batch_vars>>

\* ids the endpoints are asked about: the ids issued and 0, which never is
PollIds == 0..MaxJobs

\* GET /api/review/status/{task_id}
GetReviewStatus(task_id) ==
  /\ http_response' =
       [endpoint |-> "get_review_status", task_id |-> task_id] @@
       get_review_status(review_tasks, task_id)
  /\ UNCHANGED <<review_agent, review_tasks, coroutines, scorer_vars, service_vars,
                 composer_vars, fetch_vars, agent_vars,
                 session_vars, batch_vars>>

\* GET /api/review/result/{task_id}
GetReviewResult(task_id) ==
  /\ http_response' =
       [endpoint |-> "get_review_result", task_id |-> task_id] @@
       get_review_result(review_tasks, task_id)
  /\ UNCHANGED <<review_agent, review_tasks, coroutines, scorer_vars, service_vars,
                 composer_vars, fetch_vars, agent_vars,
                 session_vars, batch_vars>>

\* the web application after lifespan() ran: with or without an agent
InitJobs ==
  /\ review_agent \in {None, MovieReviewAgent}
  /\ review_tasks = <<>>
  /\ coroutines = <<>>
  /\ http_response = None
  /\ ScorerIdle
  /\ ServiceIdle
  /\ ComposerIdle
  /\ FetchIdle
  /\ AgentIdle
  /\ SessionsIdle
  /\ BatchIdle

NextJobs ==
  \/ GenerateReview
  \/ \E task_id \in 1..MaxJobs :
       \/ StartJob(task_id)
       \/ GotMovieInfo(task_id)
       \/ GotContext(task_id)
       \/ GotReviewContent(task_id)
  \/ \E task_id \in PollIds :
       \/ GetReviewStatus(task_id)
       \/ GetReviewResult(task_id)

SpecJobs == InitJobs /\ [][NextJobs]_vars

\* the task asyncio.create_task made for the coroutine of a job is cancelled
\* before its first step or while it is suspended at an await:
\* asyncio.CancelledError is a BaseException, "except Exception" lets it pass
\* and the coroutine ends without another assignment to the task
CancelJob(task_id) ==
  /\ task_id \in DOMAIN coroutines
  /\ coroutines[task_id].pc \in
       {"created", "get_movie_info", "collect_context", "generate_review_content"}
  /\ coroutines' = with_coroutine(task_id, [coroutines[task_id] EXCEPT !.pc = "cancelled"])
  /\ UNCHANGED <<review_agent, review_tasks, http_response, scorer_vars, service_vars,
                 composer_vars, fetch_vars, agent_vars,
                 session_vars, batch_vars>>

\* the event loop runs every scheduled coroutine, and every awaited external
\* call returns or raises
JobsProgress ==
  \A task_id \in 1..MaxJobs :
    /\ WF_vars(StartJob(task_id))
    /\ WF_vars(GotMovieInfo(task_id))
    /\ WF_vars(GotContext(task_id))
    /\ WF_vars(GotReviewContent(task_id))

\* the jobs of the application with the cancellation of their tasks
NextCancel ==
  \/ GenerateReview
  \/ \E task_id \in 1..MaxJobs :
       \/ StartJob(task_id)
       \/ GotMovieInfo(task_id)
       \/ GotContext(task_id)
       \/ GotReviewContent(task_id)
       \/ CancelJob(task_id)

SpecCancel == InitJobs /\ [][NextCancel]_vars /\ JobsProgress

\* "async with self.tmdb_service as service" of _get_movie_info or
\* _collect_context is entered: __aenter__ puts a new session into the service
AEnter(block) ==
  /\ blocks[block].pc = "before"
  /\ session' = Len(sessions) + 1
  /\ sessions' = with_new_session(sessions, block)
  /\ blocks' = [blocks EXCEPT ![block].pc = "inside", ![block].own = Len(sessions) + 1]
  /\ UNCHANGED <<scorer_vars, service_vars, composer_vars, fetch_vars, job_vars, agent_vars,
                 batch_vars>>

\* service.search_movie inside the block: the head of search_movie and the
\* self.session.get of _search_movies, made on the session the service holds now
SearchMovie(block) ==
  /\ blocks[block].pc = "inside"
  /\ session' = session_of_search(session, sessions)
  /\ sessions' = IF session = NoSession THEN with_new_session(sessions, block) ELSE sessions
  /\ blocks' = [blocks EXCEPT ![block].used = @ \cup {session_of_search(session, sessions)}]
  /\ UNCHANGED <<scorer_vars, service_vars, composer_vars, fetch_vars, job_vars, agent_vars,
                 batch_vars>>

\* the block is left: __aexit__
AExit(block) ==
  /\ blocks[block].pc = "inside"
  /\ sessions' = closed_at_exit(sessions, session, block)
  /\ blocks' = [blocks EXCEPT ![block].pc = "after"]
  /\ UNCHANGED <<session, scorer_vars, service_vars, composer_vars, fetch_vars, job_vars,
                 agent_vars, batch_vars>>

\* the blocks of several jobs on the one TMDBService of the shared agent
InitSessions == Idle
NextSessions == \E block \in 1..MaxBlocks : AEnter(block) \/ SearchMovie(block) \/ AExit(block)
SpecSessions == InitSessions /\ [][NextSessions]_vars

\* POST /api/review/batch, generate_batch_reviews: 503 without an agent, else
\* one generate_review coroutine per movie handed to asyncio.gather
GenerateBatchReviews ==
  /\ batch_pc = "idle"
  /\ \E movies \in BatchRequestInputs :
       /\ batch_request' = movies
       /\ IF review_agent = None
          THEN /\ batch_pc' = "responded"
               /\ batch_response' = [status_code |-> 503, detail |-> {}, body |-> None]
               /\ UNCHANGED batch_results
          ELSE /\ batch_pc' = "gathering"
               /\ batch_results' = [i \in 1..Len(movies) |-> None]
               /\ UNCHANGED batch_response
  /\ UNCHANGED <<scorer_vars, service_vars, composer_vars, fetch_vars, job_vars, agent_vars,
                 session_vars>>

\* the generate_review coroutine of one movie of the batch ends
ReviewGenerated(i) ==
  /\ batch_pc = "gathering"
  /\ i \in DOMAIN batch_results
  /\ batch_results[i] = None
  /\ \E first_answer \in CatalogAnswers, second_answer \in CatalogAnswers,
        llm_answer \in LanguageModelAnswers :
       batch_results' =
         [batch_results EXCEPT
            ![i] = generate_review(batch_request[i], first_answer, second_answer,
                                   CatalogReviews, llm_answer)]
  /\ UNCHANGED <<batch_pc, batch_request, batch_response, scorer_vars, service_vars,
                 composer_vars, fetch_vars, job_vars, agent_vars, session_vars>>

\* asyncio.gather returns when every coroutine has returned, and raises as soon
\* as one of them raised; the endpoint answers with the BatchReviewResponse or,
\* from its except branch, with HTTP 500
BatchGathered ==
  /\ batch_pc = "gathering"
  /\ \/ \A i \in DOMAIN batch_results : batch_results[i] # None
     \/ \E i \in DOMAIN batch_results : batch_results[i] # None /\ batch_results[i].raised
  /\ batch_pc' = "responded"
  /\ batch_response' = batch_answer(batch_results)
  /\ UNCHANGED <<batch_request, batch_results, scorer_vars, service_vars, composer_vars,
                 fetch_vars, job_vars, agent_vars, session_vars>>

\* one batch request to the application
InitBatch == InitJobs
NextBatch ==
  \/ GenerateBatchReviews
  \/ \E i \in 1..MaxBatch : ReviewGenerated(i)
  \/ BatchGathered
SpecBatch == InitBatch /\ [][NextBatch]_vars

\* calculate_review_based_rating with the page requests of its fetch
InitFetch == Idle
NextFetch == RequestFirstPage \/ RequestNextPage \/ CalculateReviewBasedRating
SpecFetch == InitFetch /\ [][NextFetch]_vars

\* _calculate_rating(movie_info, context) on the context _collect_context
\* builds from a review-based rating and the reviews it rated
CalculateRating ==
  /\ rating # None
  /\ calculated_rating = None
  /\ \E movie_info \in MovieInfoInputs :
       /\ rated_movie_info' = movie_info
       /\ rated_context' = with_sentiment_analysis(reviewed_context(rating, reviews))
       /\ calculated_rating' =
            _calculate_rating(movie_info,
                              with_sentiment_analysis(reviewed_context(rating, reviews)))
  /\ UNCHANGED <<scorer_vars, service_vars, composer_vars, fetch_vars, job_vars,
                 session_vars, batch_vars>>

\* the rating of a job from the review-based rating of a fetched batch
InitRating == Idle
NextRating == GetMovieReviews \/ CalculateReviewBasedRating \/ CalculateRating
SpecRating == InitRating /\ [][NextRating]_vars

(***************************************************************************)
(* Properties.                                                             *)
(***************************************************************************)
\* number of reviews of a batch that carry a non-empty text
NonEmptyCount(rs) ==
  Cardinality({i \in 1..Len(rs) : "content" \in DOMAIN rs[i] /\ Len(rs[i].content) > 0})

\* positive + neutral + negative of a distribution
DistributionTotal(distribution) ==
  distribution.positive + distribution.neutral + distribution.negative

\* C1: analyze returns a value in [-1, 1], and exactly 0.0 for the empty
\* string and for whitespace-only text.
C1_ScoreInRange ==
  score # None =>
    /\ RLeq(RInt(-1), score)
    /\ RLeq(score, RInt(1))
    /\ ((\A i \in 1..Len(text) : IsSpace(text[i])) => score = RInt(0))

\* a text with so many keyword hits that the amplified score leaves [-1, 1]
\* and is clamped to 1.0
C1_Witness == score = RInt(1) /\ Len(text) > 0

\* C2: in the result of calculate_review_based_rating and in the result of
\* analyze_reviews, positive + neutral + negative equals the number of reviews
\* of the batch whose text is non-empty.
C2_DistributionCountsNonEmpty ==
  /\ rating # None =>
       DistributionTotal(rating.sentiment_distribution) = NonEmptyCount(reviews)
  /\ summary # None =>
       DistributionTotal(summary.sentiment_distribution) = NonEmptyCount(reviews)

\* a batch of three reviews, one of them without text, rated and summarised
C2_Witness ==
  /\ rating # None
  /\ summary # None
  /\ Len(reviews) = 3
  /\ NonEmptyCount(reviews) = 2
  /\ rating.sentiment_distribution.positive = 1

\* C3: with no reviews the rating call returns rating 0.0, review_count 0,
\* an all-zero distribution and confidence_level 无数据, and runs none of the
\* sub-formulas (the breakdown stays empty).
C3_NoReviewsZeroResult ==
  (rating # None /\ Len(reviews) = 0) =>
    /\ rating.rating = RInt(0)
    /\ rating.review_count = 0
    /\ rating.sentiment_distribution = [positive |-> 0, neutral |-> 0, negative |-> 0]
    /\ rating.confidence_level = <<26080, 25968, 25454>>
    /\ rating.rating_breakdown = <<>>
    /\ called = {}

\* the rating call has returned for an empty batch
C3_Witness == pc = "fetched" /\ reviews = <<>> /\ rating # None

\* the labels 低 中低 中等 中高 高 无数据
ConfidenceEnum ==
  {<<20302>>, <<20013, 20302>>, <<20013, 31561>>, <<20013, 39640>>, <<39640>>,
   <<26080, 25968, 25454>>}

\* C4 as stated: for every batch the confidence_level of the result is one of
\* 低 中低 中等 中高 高 无数据.
C4_Original == rating # None => rating.confidence_level \in ConfidenceEnum

\* C4 as amended: the confidence_level is one of 低 中低 中等 中高 高 无数据
\* 无情感数据; a batch without any non-empty text yields the zero result
\* (rating 0.0, zero distribution, average 0.0, empty breakdown, review_count
\* the number of fetched reviews), labelled 无数据 when the batch is empty and
\* 无情感数据 when it has reviews that all lack text.
C4_Amended ==
  rating # None =>
    /\ rating.confidence_level \in ConfidenceEnum \cup {<<26080, 24773, 24863, 25968, 25454>>}
    /\ NonEmptyCount(reviews) = 0 =>
         /\ rating.rating = RInt(0)
         /\ rating.review_count = Len(reviews)
         /\ rating.sentiment_distribution = [positive |-> 0, neutral |-> 0, negative |-> 0]
         /\ rating.average_sentiment = RInt(0)
         /\ rating.rating_breakdown = <<>>
         /\ rating.confidence_level =
              IF Len(reviews) = 0 THEN <<26080, 25968, 25454>>
              ELSE <<26080, 24773, 24863, 25968, 25454>>
    /\ NonEmptyCount(reviews) > 0 => rating.confidence_level \in ConfidenceEnum

\* the rating call has returned for a batch of reviews that all lack text
C4_Witness == rating # None /\ Len(reviews) = 2 /\ NonEmptyCount(reviews) = 0

\* clamp(0, 10, (audience*0.6 + consistency*0.25 + intensity*0.15) * weight)
\* in twentieths of hundredths, on a breakdown
WeightedRating(breakdown) ==
  LET weighted == RAdd(RAdd(RMul(breakdown.audience_score, R(3, 5)),
                            RMul(breakdown.consistency_score, R(1, 4))),
                       RMul(breakdown.intensity_score, R(3, 20)))
      product  == RMul(weighted, breakdown.quantity_weight)
  IN  IF RLess(product, RInt(0)) THEN RInt(0)
      ELSE IF RLess(RInt(10), product) THEN RInt(10)
      ELSE product

\* C5 as stated: final_rating equals the weighted expression over the
\* sub-scores reported in the breakdown, rounded to one decimal.
C5_Original ==
  rating_components # None =>
    rating_components.final_rating = round(WeightedRating(rating_components.breakdown), 1)

\* C5 as amended: final_rating is within 0.1 of the weighted expression over
\* the reported sub-scores rounded to one decimal; the two need not be equal,
\* because final_rating comes from the unrounded sub-scores and the breakdown
\* reports them rounded to two decimals.
C5_Amended ==
  rating_components # None =>
    RLeq(RAbs(RSub(rating_components.final_rating,
                   round(WeightedRating(rating_components.breakdown), 1))),
         R(1, 10))

\* a result whose final_rating differs from the expression over its breakdown
C5_Witness ==
  /\ rating_components # None
  /\ composer_input.total_reviews >= 1
  /\ rating_components.final_rating # round(WeightedRating(rating_components.breakdown), 1)

\* two composer calls have returned, on inputs with the same review count and
\* the same number of negative reviews, the second with more positive ones
ComparedPair ==
  /\ rating_components # None
  /\ second_components # None
  /\ second_input.total_reviews = composer_input.total_reviews
  /\ second_input.negative = composer_input.negative
  /\ second_input.positive > composer_input.positive

\* C6 as stated: of two composer inputs with the same review count and the
\* same negative ratio, whatever their sentiment scores, the one with the
\* larger positive ratio never gets the smaller final_rating.
C6_Original ==
  ComparedPair =>
    RLeq(rating_components.final_rating, second_components.final_rating)

\* C6 as amended: of two composer inputs with the same review count, the same
\* negative ratio and the same intensity_score, the one with the larger
\* positive ratio never gets the smaller final_rating; without the equal
\* intensity_score the rating can drop, because the intensity depends on the
\* scores and not only on the ratios.
C6_Amended ==
  (/\ ComparedPair
   /\ second_components.breakdown.intensity_score =
        rating_components.breakdown.intensity_score) =>
    RLeq(rating_components.final_rating, second_components.final_rating)

\* a pair with equal intensity where more positive reviews raised the rating
C6_Witness ==
  /\ ComparedPair
  /\ second_components.breakdown.intensity_score =
       rating_components.breakdown.intensity_score
  /\ RLess(rating_components.final_rating, second_components.final_rating)

\* the composer has returned for 60 reviews, 48 positive and 6 negative
Scenario60 ==
  /\ rating_components # None
  /\ composer_input.total_reviews = 60
  /\ composer_input.positive = 48
  /\ composer_input.negative = 6

\* C7 as stated: for 60 scored reviews with 48 positive and 6 negative the
\* audience_score lies in [8.0, 9.0), the consistency_score is 8.0 and the
\* quantity_weight is 0.95.
C7_Original ==
  Scenario60 =>
    /\ RLeq(RInt(8), rating_components.breakdown.audience_score)
    /\ RLess(rating_components.breakdown.audience_score, RInt(9))
    /\ rating_components.breakdown.consistency_score = RInt(8)
    /\ rating_components.breakdown.quantity_weight = R(95, 100)

\* C7 as amended: for 60 scored reviews with 48 positive and 6 negative the
\* audience_score is 8.0, the consistency_score is 9.0 (ratio 0.8 >= 0.8 and
\* ratio 0.1 <= 0.1 meet the first band) and the quantity_weight is 0.95.
C7_Amended ==
  Scenario60 =>
    /\ rating_components.breakdown.audience_score = RInt(8)
    /\ rating_components.breakdown.consistency_score = RInt(9)
    /\ rating_components.breakdown.quantity_weight = R(95, 100)

\* the scenario has been composed and its positive/negative ratios are 0.8 / 0.1
C7_Witness ==
  /\ Scenario60
  /\ rating_components.breakdown.positive_ratio = RInt(80)
  /\ rating_components.breakdown.negative_ratio = RInt(10)

\* mean of |score| over the scores
MeanAbs(scores) ==
  RDivInt(sum([i \in 1..Len(scores) |-> RAbs(scores[i])]), Len(scores))

\* the step function of C8 applied to the mean of |score|, the bonus and the cap
IntensityOfMeanAbs(scores) ==
  LET mean_abs == MeanAbs(scores)
      step == IF RLeq(R(7, 10), mean_abs) THEN 9
              ELSE IF RLeq(R(5, 10), mean_abs) THEN 8
              ELSE IF RLeq(R(3, 10), mean_abs) THEN 7
              ELSE IF RLeq(R(15, 100), mean_abs) THEN 6
              ELSE 5
      agreed == IF Len(scores) > 1 THEN RLess(variance(scores), R(4, 100)) ELSE TRUE
      total == IF agreed THEN R(2 * step + 1, 2) ELSE RInt(step)
  IN  IF RLess(RInt(10), total) THEN RInt(10) ELSE total

\* C8: intensity_score is the step function of the mean of |score| over the
\* batch's scores (>= 0.7 -> 9, >= 0.5 -> 8, >= 0.3 -> 7, >= 0.15 -> 6, else
\* 5), plus 0.5 when the sample standard deviation is below 0.2, capped at 10.
C8_IntensityOfMeanAbs ==
  (rating_components # None /\ composer_input.total_reviews > 0) =>
    rating_components.breakdown.intensity_score =
      IntensityOfMeanAbs(composer_input.sentiment_results)

\* positive_ratio * 10 for positive of total_reviews reviews
TenTimesRatio(input) == R(10 * input.positive, input.total_reviews)

\* C9: audience_score is exactly 5.0, 6.0, 7.0, 8.0 and 9.0 at positive_ratio
\* exactly 0.5, 0.6, 0.7, 0.8 and 0.9, and equals positive_ratio * 10 for
\* every ratio below 0.5 (the breakdown reports it rounded to two decimals).
C9_AudienceBoundaries ==
  (rating_components # None /\ composer_input.total_reviews > 0) =>
    LET positive == composer_input.positive
        total    == composer_input.total_reviews
        reported == rating_components.breakdown.audience_score
    IN  /\ \A k \in 5..9 : 10 * positive = k * total => reported = RInt(k)
        /\ 2 * positive < total =>
             /\ audience_score_of(R(positive, total)) = TenTimesRatio(composer_input)
             /\ reported = round(TenTimesRatio(composer_input), 2)

\* the composer has returned 9.0 for nine positive reviews out of ten
C9_Witness ==
  /\ rating_components # None
  /\ composer_input.total_reviews = 10
  /\ composer_input.positive = 9
  /\ rating_components.breakdown.audience_score = RInt(9)

\* the step function of C10
StepWeight(count) ==
  IF count >= 100 THEN RInt(1)
  ELSE IF count >= 50 THEN R(19, 20)
  ELSE IF count >= 20 THEN R(9, 10)
  ELSE IF count >= 10 THEN R(17, 20)
  ELSE IF count >= 5 THEN R(4, 5)
  ELSE R(7, 10)

\* C10: quantity_weight is the step function of the review count (>= 100 ->
\* 1.0, >= 50 -> 0.95, >= 20 -> 0.9, >= 10 -> 0.85, >= 5 -> 0.8, otherwise
\* 0.7), 100 reviews give 1.0 and 99 give 0.95, and the weight never decreases
\* when the count increases.
C10_QuantityWeightSteps ==
  rating_components # None =>
    LET count  == composer_input.total_reviews
        weight == rating_components.breakdown.quantity_weight
    IN  /\ weight = StepWeight(count)
        /\ count = 100 => weight = RInt(1)
        /\ count = 99 => weight = R(95, 100)
        /\ \A larger \in count..(count + 100) :
             RLeq(weight, _calculate_quantity_weight(larger))
        /\ \A smaller \in 0..count :
             RLeq(_calculate_quantity_weight(smaller), weight)

\* the composer has returned the full weight for exactly 100 reviews
C10_Witness ==
  /\ rating_components # None
  /\ composer_input.total_reviews = 100
  /\ rating_components.breakdown.quantity_weight = RInt(1)

\* the bands of C11 on the counts: ratio >= 0.7 is 10 * positive >= 7 * count
BandLabel(count, positive) ==
  IF count >= 50 /\ 10 * positive >= 7 * count THEN <<39640>>
  ELSE IF count >= 20 /\ 10 * positive >= 6 * count THEN <<20013, 39640>>
  ELSE IF count >= 10 THEN <<20013, 31561>>
  ELSE IF count >= 5 THEN <<20013, 20302>>
  ELSE <<20302>>

\* C11: confidence_level is given by the first matching band of
\* (total_review_count, positive_ratio): count >= 50 and ratio >= 0.7 -> 高;
\* count >= 20 and ratio >= 0.6 -> 中高; count >= 10 -> 中等; count >= 5 ->
\* 中低; otherwise 低. The negative ratio never influences the label.
C11_ConfidenceBands ==
  (rating_components # None /\ composer_input.total_reviews > 0) =>
    rating_components.confidence =
      BandLabel(composer_input.total_reviews, composer_input.positive)

\* 50 reviews with 35 positive and 15 negative: both edges of the top band,
\* with a large negative ratio, labelled 高
C11_Witness ==
  /\ rating_components # None
  /\ composer_input.total_reviews = 50
  /\ composer_input.positive = 35
  /\ composer_input.negative = 15
  /\ rating_components.confidence = <<39640>>

\* C13: analyze never raises; for a value that is not text (None, a number,
\* a list, a dict) it returns the float 0.0, as for the empty text.
C13_NeverRaises ==
  outcome # None =>
    /\ ~outcome.raised
    /\ value.type # "str" => outcome.ret = RInt(0)

\* w occurs in t starting at position i (1-based)
StartsAt(w, t, i) ==
  /\ i + Len(w) - 1 <= Len(t)
  /\ \A j \in 1..Len(w) : t[i + j - 1] = w[j]

\* t holds a negative keyword and, after it, a positive keyword directly
\* preceded by a negation word
NegatedPositiveAfterNegative(t) ==
  \E i \in 1..Len(t) :
    \E neg \in negations :
      /\ StartsAt(neg, t, i)
      /\ \E keyword \in positive_keywords : StartsAt(keyword, t, i + Len(neg))
      /\ \E keyword \in negative_keywords : In(keyword, SubSeq(t, 1, i - 1))

\* C14: analyze returns a score below 0 for a text made of a negative keyword
\* followed by a positive keyword that is directly preceded by a negation
\* word, as in 这部电影很糟糕，不推荐: wherever it occurs in the text, the
\* negated positive keyword does not offset the negative keyword.
C14_NegatedPositiveKeepsNegative ==
  (score # None /\ NegatedPositiveAfterNegative(text)) => RLess(score, RInt(0))

\* the batch 太棒了，非常精彩 / 很差，浪费时间 / 一般
ScenarioBatch ==
  <<[content |-> TextScenarioPos], [content |-> TextScenarioNeg],
    [content |-> TextScenarioNeu]>>

\* the label of a score: above 0.1 positive, below -0.1 negative, else neutral
LabelOf(x) ==
  IF RLess(R(1, 10), x) THEN "positive"
  ELSE IF RLess(x, R(-1, 10)) THEN "negative"
  ELSE "neutral"

\* x lies in the neutral band [-0.1, 0.1]
NearZero(x) == RLeq(R(-1, 10), x) /\ RLeq(x, R(1, 10))

\* C15: for the batch 太棒了，非常精彩 / 很差，浪费时间 / 一般 the labels of
\* the three reviews are positive, negative, neutral, the distribution is one
\* positive, one neutral, one negative, and the average sentiment lies in
\* the neutral band [-0.1, 0.1].
C15_ScenarioBatch ==
  (reviews = ScenarioBatch /\ rating # None /\ summary # None) =>
    /\ [i \in 1..3 |-> LabelOf(analyze(reviews[i].content))]
         = <<"positive", "negative", "neutral">>
    /\ summary.sentiment_distribution = [positive |-> 1, neutral |-> 1, negative |-> 1]
    /\ rating.sentiment_distribution = [positive |-> 1, neutral |-> 1, negative |-> 1]
    /\ NearZero(summary.average_sentiment)
    /\ NearZero(rating.average_sentiment)

\* the scenario batch has been rated and summarised, with a non-zero average
C15_Witness ==
  /\ reviews = ScenarioBatch
  /\ rating # None
  /\ summary # None
  /\ summary.average_sentiment # RInt(0)
  /\ summary.most_positive = reviews[1]
  /\ summary.most_negative = reviews[2]

\* the four states of a review job
JobStates == {"pending", "processing", "completed", "error"}

\* the moves of one job from one state of the application to the next
JobMoves(task_id) ==
  LET before == review_tasks[task_id].status
      after == review_tasks'[task_id].status
  IN  \/ after = before
      \/ before = "pending" /\ after = "processing"
      \/ before = "processing" /\ after \in {"completed", "error"}

\* a job that is completed or failed keeps its whole snapshot
JobFrozen(task_id) ==
  review_tasks[task_id].status \in {"completed", "error"}
    => review_tasks'[task_id] = review_tasks[task_id]

\* a task that enters the table enters it pending, and no task leaves the table
JobCreatedPending ==
  /\ DOMAIN review_tasks \subseteq DOMAIN review_tasks'
  /\ \A task_id \in DOMAIN review_tasks' \ DOMAIN review_tasks :
       review_tasks'[task_id].status = "pending"

\* the answer to the last status poll is the snapshot the table held when
\* the poll was answered, or 404 for an id that is not in the table
PollSnapshot ==
  http_response' # http_response /\ http_response'.endpoint = "get_review_status"
    => IF http_response'.task_id \in DOMAIN review_tasks
       THEN /\ http_response'.status_code = 200
            /\ http_response'.body = review_tasks[http_response'.task_id]
       ELSE http_response'.status_code = 404

\* C16: every review job is at all times in one of the states pending,
\* processing, completed, error; it is created pending, moves only
\* pending -> processing -> (completed | error), and once completed or failed
\* its snapshot never changes; the status poll returns the current snapshot and
\* answers 404 for an id that was never issued.
C16_JobStateMachine ==
  /\ [](\A task_id \in DOMAIN review_tasks : review_tasks[task_id].status \in JobStates)
  /\ [][/\ JobCreatedPending
        /\ \A task_id \in DOMAIN review_tasks : JobMoves(task_id) /\ JobFrozen(task_id)
        /\ PollSnapshot]_vars

\* a job went through every state and completed, another one failed, and the
\* status poll of the completed one was answered with its snapshot
C16_Witness ==
  /\ Len(review_tasks) = 2
  /\ review_tasks[1].status = "completed"
  /\ review_tasks[2].status = "error"
  /\ http_response # None
  /\ http_response.endpoint = "get_review_status"
  /\ http_response.task_id = 1
  /\ http_response.body = review_tasks[1]

\* the rating of one calculate_review_based_rating call over the whole batch
\* the catalog holds for the movie
CatalogRating == calculate_review_based_rating(CatalogReviews).ret.rating

\* the result is null in every snapshot that is not completed
ResultOnlyWhenCompleted ==
  \A task_id \in DOMAIN review_tasks :
    review_tasks[task_id].status # "completed" => review_tasks[task_id].result = None

\* an answer of the result endpoint: 404 for an id that is not in the table,
\* 400 for a job that is not completed, else the result of the completed job
ResultEndpointRefuses ==
  http_response' # http_response /\ http_response'.endpoint = "get_review_result"
    => IF http_response'.task_id \notin DOMAIN review_tasks
       THEN http_response'.status_code = 404
       ELSE IF review_tasks[http_response'.task_id].status # "completed"
            THEN http_response'.status_code = 400 /\ http_response'.body = None
            ELSE /\ http_response'.status_code = 200
                 /\ http_response'.body = review_tasks[http_response'.task_id].result

\* the rating of a completed job whose catalog answered with the movie is the
\* rating of the one computation over the movie's whole batch
RatingOfWholeBatch ==
  \A task_id \in DOMAIN review_tasks :
    review_tasks[task_id].status = "completed" /\ coroutines[task_id].found
      => review_tasks[task_id].result.rating = CatalogRating

\* C17: no partial result is observable: the snapshot's result is null while a
\* job is pending or processing and after it failed, and the result endpoint
\* refuses with 400; the rating that becomes visible with status completed is
\* the result of one rating computation over the whole batch of reviews fetched
\* for the movie.
C17_NoPartialResult ==
  /\ [](ResultOnlyWhenCompleted /\ RatingOfWholeBatch)
  /\ [][ResultEndpointRefuses]_vars

\* the result field and the result endpoint alone: these parts hold
ResultHidden == []ResultOnlyWhenCompleted /\ [][ResultEndpointRefuses]_vars

\* the coroutine of the job has ended
JobEnded(task_id) == coroutines[task_id].pc = "done"

SomePageFailed == \E i \in 1..Len(responses) : page_failed(responses[i])

\* C19: the rating core is never run on a partial batch from a failed fetch: if
\* any page request of the fetch failed (a status other than 200 or an
\* exception), calculate_review_based_rating computes no rating from the
\* reviews of the pages that did succeed: it scores nothing and reports no review.
C19_NoRatingOfPartialBatch ==
  rating # None /\ SomePageFailed
    => /\ called = {}
       /\ rating.review_count = 0

\* the total_pages the answer to the first request reports (1 without the key)
ReportedPages == dict_get(responses[1].data, "total_pages", 1)

\* the page the fetch ends with: min(total_pages, 5), and page 1 in any case
LastPage ==
  IF ReportedPages < 1 THEN 1 ELSE IF ReportedPages < 5 THEN ReportedPages ELSE 5

\* the results of the first k answers that came with status 200, in page order
RECURSIVE ResultsInOrder(_)
ResultsInOrder(k) ==
  IF k = 0 THEN <<>>
  ELSE ResultsInOrder(k - 1) \o
         (IF page_failed(responses[k]) THEN <<>> ELSE results_of(responses[k].data))

\* C20: one call of get_movie_reviews issues at most 5 page requests, whatever
\* total_pages the catalog reports, and requests the pages in increasing order
\* 1, 2, ..., min(total_pages, 5) (page 1 in any case: it carries total_pages);
\* a call that no exception ended has requested all of them when it returns,
\* and it returns their reviews appended in that order.
C20_PageRequests ==
  /\ Len(requested) <= 5
  /\ \A i \in 1..Len(requested) : requested[i] = i
  /\ requested # <<>> /\ ~page_failed(responses[1]) => Len(requested) <= LastPage
  /\ pc = "fetched" /\ ~page_failed(responses[1])
       /\ (\A i \in 1..Len(responses) : ~responses[i].raises)
       => /\ Len(requested) = LastPage
          /\ reviews = ResultsInOrder(Len(responses))

\* the catalog reported more than 5 pages and the call returned the reviews of
\* the pages 1 to 5
C20_Witness ==
  /\ pc = "fetched"
  /\ requested = <<1, 2, 3, 4, 5>>
  /\ ReportedPages > 5
  /\ Len(reviews) = 5
  /\ \A i \in 1..5 : reviews[i].author = <<48 + i>>

\* the up-to-8 code points before the first occurrence of keyword in t
WindowBefore(keyword, t) ==
  LET first == CHOOSE i \in 1..Len(t) :
                 StartsAt(keyword, t, i) /\ \A j \in 1..(i - 1) : ~StartsAt(keyword, t, j)
  IN  SubSeq(t, IF first > 8 THEN first - 8 ELSE 1, first - 1)

\* w occurs somewhere in t
OccursIn(w, t) == \E i \in 1..Len(t) : StartsAt(w, t, i)

\* the window without the white space at its two ends
Trimmed(window) ==
  LET kept == {i \in 1..Len(window) : ~IsSpace(window[i])}
  IN  IF kept = {} THEN <<>>
      ELSE SubSeq(window, CHOOSE i \in kept : \A j \in kept : i <= j,
                  CHOOSE i \in kept : \A j \in kept : j <= i)

\* negated as C21 states it: a negation word is in the window and what
\* remains of the window after removing that word is at most two code points
\* longer than the word
NegatedByRemainder(keyword, t) ==
  \E neg \in negations :
    /\ OccursIn(neg, WindowBefore(keyword, t))
    /\ Len(Trimmed(WindowBefore(keyword, t))) - Len(neg) <= Len(neg) + 2

\* negated as the amended C21 states it: a negation word is in the window and
\* the whole window, the negation word included, is at most two code points
\* longer than the word
NegatedByWholeWindow(keyword, t) ==
  \E neg \in negations :
    /\ OccursIn(neg, WindowBefore(keyword, t))
    /\ Len(Trimmed(WindowBefore(keyword, t))) <= Len(neg) + 2

\* twice the tally of one polarity under a negation rule: -1 for a negated
\* keyword, else +1, and +0.5 with an intensifier in the window
DoubleTally(keywords, t, Negated(_, _)) ==
  LET hits == {k \in keywords : OccursIn(k, t)}
      negated == {k \in hits : Negated(k, t)}
      amplified == {k \in hits \ negated :
                      \E intensifier \in intensifiers :
                        OccursIn(intensifier, WindowBefore(k, t))}
  IN  2 * Cardinality(hits \ negated) - 2 * Cardinality(negated) + Cardinality(amplified)

\* the score of a text under a negation rule: the net tally over the size of
\* the two lexicons, times 12, cut to [-1, 1]
ScoreUnder(t, Negated(_, _)) ==
  LET net == DoubleTally(positive_keywords, lower(t), Negated)
               - DoubleTally(negative_keywords, lower(t), Negated)
  IN  RMax(RMin(R(12 * net, 2 * max_score), RInt(1)), RInt(-1))

WithoutEmptyReviews(rs) == SelectSeq(rs, LAMBDA review : content_of(review) # <<>>)

\* two results agree on rating, distribution, average sentiment, breakdown and
\* confidence level
SameSentimentFields(a, b) ==
  /\ a.rating = b.rating
  /\ a.sentiment_distribution = b.sentiment_distribution
  /\ a.average_sentiment = b.average_sentiment
  /\ a.rating_breakdown = b.rating_breakdown
  /\ a.confidence_level = b.confidence_level

\* two results agree on everything but review_count
SameButReviewCount(a, b) == [a EXCEPT !.review_count = 0] = [b EXCEPT !.review_count = 0]

\* the fetched batch is a batch with at least one text to which reviews
\* without text were added
EmptyReviewsAdded ==
  /\ rating # None
  /\ WithoutEmptyReviews(reviews) # <<>>
  /\ WithoutEmptyReviews(reviews) # reviews

\* C22 as stated: adding any number of empty-text reviews to a batch that has
\* at least one non-empty review changes only the returned review_count: every
\* other entry of the result is the one of the batch without them.
C22_Original ==
  EmptyReviewsAdded
    => SameButReviewCount(rating, calculate_review_based_rating(WithoutEmptyReviews(reviews)).ret)

\* C22, amended: adding empty-text reviews changes only review_count, which
\* counts every fetched review, and reviews_sample, the first five fetched
\* reviews; rating, distribution, average_sentiment, breakdown (quantity_weight
\* included) and confidence_level are those of the batch without them.
C22_Amended ==
  EmptyReviewsAdded
    => /\ SameSentimentFields(rating,
                              calculate_review_based_rating(WithoutEmptyReviews(reviews)).ret)
       /\ rating.review_count = Len(reviews)
       /\ rating.reviews_sample = SubSeq(reviews, 1, IF Len(reviews) < 5 THEN Len(reviews) ELSE 5)

\* a rated batch of three reviews, one with a text and two without
C22_Witness ==
  /\ EmptyReviewsAdded
  /\ Len(reviews) = 3
  /\ Len(WithoutEmptyReviews(reviews)) = 1
  /\ rating.review_count = 3
  /\ DistributionTotal(rating.sentiment_distribution) = 1

\* C23: the audience score rewards consensus super-linearly near the top: a
\* given increase of positive_ratio raises audience_score by more in the bands
\* at or above 0.5 than below 0.5, so above the ratio 0.5 (where the score is
\* 5.0) the audience_score lies above the plain linear map positive_ratio * 10
\* of the region below 0.5.
C23_SuperLinearTop ==
  (/\ rating_components # None
   /\ 2 * composer_input.positive > composer_input.total_reviews) =>
    RGreater(rating_components.breakdown.audience_score,
             round(TenTimesRatio(composer_input), 2))

\* x lies in [0, 10]
InZeroTen(x) == RLeq(RInt(0), x) /\ RLeq(x, RInt(10))

\* C24: for every composer result with total_reviews >= 1 and
\* positive + negative <= total_reviews, audience_score, consistency_score and
\* intensity_score each lie in [0, 10], quantity_weight lies in (0, 1], and
\* final_rating lies in [0, 10].
C24_ComponentRanges ==
  (/\ rating_components # None
   /\ composer_input.total_reviews >= 1
   /\ composer_input.positive + composer_input.negative <= composer_input.total_reviews) =>
    /\ InZeroTen(rating_components.breakdown.audience_score)
    /\ InZeroTen(rating_components.breakdown.consistency_score)
    /\ InZeroTen(rating_components.breakdown.intensity_score)
    /\ RLess(RInt(0), rating_components.breakdown.quantity_weight)
    /\ RLeq(rating_components.breakdown.quantity_weight, RInt(1))
    /\ InZeroTen(rating_components.final_rating)

\* a hundred reviews, all positive with the score 1.0: audience_score 10, the
\* weight 1 and the largest rating the composer gives
C24_Witness ==
  /\ rating_components # None
  /\ composer_input.total_reviews = 100
  /\ composer_input.positive = 100
  /\ rating_components.breakdown.audience_score = RInt(10)
  /\ rating_components.breakdown.quantity_weight = RInt(1)
  /\ rating_components.breakdown.intensity_score = R(19, 2)
  /\ rating_components.final_rating = R(97, 10)

\* the metadata formula: 0.6 * rating + 0.2 * (5 * average + 5)
\* + 0.2 * min(popularity, 10), cut to [0, 10]
MetadataRating(movie_info, average) ==
  LET base == IF movie_info.rating = None THEN RInt(0) ELSE movie_info.rating
      popularity == IF movie_info.popularity = None THEN RInt(0) ELSE movie_info.popularity
      capped == IF RLess(RInt(10), popularity) THEN RInt(10) ELSE popularity
      total == RAdd(RAdd(RMul(R(3, 5), base), RAdd(average, RInt(1))),
                    RMul(R(1, 5), capped))
  IN  IF RLess(total, RInt(0)) THEN RInt(0)
      ELSE IF RLess(RInt(10), total) THEN RInt(10) ELSE total

\* the mean of the scores analyze gives the reviews of a batch (0 without reviews)
MeanScore(rs) ==
  IF rs = <<>> THEN RInt(0)
  ELSE RDivInt(sum([i \in 1..Len(rs) |-> analyze(content_of(rs[i]))]), Len(rs))

\* C25: whenever calculate_review_based_rating scored at least one non-empty
\* review its rating is above 0, and _calculate_rating returns exactly that
\* rating, not the value of the metadata formula; the metadata formula is used
\* only when no review was scored; in both cases the rating lies in [0, 10].
C25_ReviewRatingFirst ==
  calculated_rating # None =>
    /\ NonEmptyCount(reviews) >= 1 =>
         /\ RLess(RInt(0), rating.rating)
         /\ calculated_rating = rating.rating
    /\ NonEmptyCount(reviews) = 0 =>
         calculated_rating = MetadataRating(rated_movie_info, MeanScore(reviews))
    /\ InZeroTen(calculated_rating)

\* the batch had a review with a text, and the rating returned is the
\* review-based one although the movie has a catalog rating that would give
\* another value
C25_Witness ==
  /\ calculated_rating # None
  /\ NonEmptyCount(reviews) >= 1
  /\ rated_movie_info.rating = R(42, 5)
  /\ calculated_rating = rating.rating
  /\ calculated_rating # MetadataRating(rated_movie_info, MeanScore(reviews))

\* the progress values a snapshot may show
ProgressValues == {0, 10, 25, 40, 55, 70, 90, 100}

\* what the snapshot of one job shows together
JobSnapshotConsistent(task) ==
  /\ task.progress \in ProgressValues
  /\ task.progress = 100 <=> task.status = "completed"
  /\ task.result # None <=> task.status = "completed"
  /\ task.error # None <=> task.status = "error"

\* C26: over the lifetime of a job its progress never decreases and only
\* takes the values 0, 10, 25, 40, 55, 70, 90, 100; progress is 100 if and only
\* if the status is completed, the result is non-null if and only if the status
\* is completed, and the error is non-null if and only if the status is error.
C26_ProgressAndSnapshot ==
  /\ [](\A task_id \in DOMAIN review_tasks : JobSnapshotConsistent(review_tasks[task_id]))
  /\ [][\A task_id \in DOMAIN review_tasks :
          review_tasks'[task_id].progress >= review_tasks[task_id].progress]_vars

\* one job completed at progress 100 with its result, another failed after its
\* progress had reached 70 and kept that progress with its error
C26_Witness ==
  /\ Len(review_tasks) = 2
  /\ review_tasks[1].status = "completed"
  /\ review_tasks[1].progress = 100
  /\ review_tasks[1].result # None
  /\ review_tasks[1].error = None
  /\ review_tasks[2].status = "error"
  /\ review_tasks[2].progress = 70
  /\ review_tasks[2].error # None
  /\ review_tasks[2].result = None

\* the coroutine of a job has ended: it returned, or it was cancelled
CoroutineEnded(task_id) == coroutines[task_id].pc \in {"done", "cancelled"}

\* C27: every job accepted by the submit endpoint reaches the status completed
\* or error once its coroutine has ended, also when the coroutine was
\* cancelled; only the coroutine writes the snapshot, so a job that is pending
\* or processing when its coroutine has ended stays so forever.
C27_NoJobLeftBehind ==
  \A task_id \in DOMAIN review_tasks :
    CoroutineEnded(task_id) => review_tasks[task_id].status \in {"completed", "error"}

\* a block that is running holds the session it opened, still open, in the
\* service, and made its requests on no other session
BlockKeepsOwnSession(block) ==
  blocks[block].pc = "inside" =>
    /\ session = blocks[block].own
    /\ sessions[blocks[block].own].closed_by = {}
    /\ blocks[block].used \subseteq {blocks[block].own}

\* a block that was left has closed the session it opened
BlockClosedOwnSession(block) ==
  blocks[block].pc = "after" => block \in sessions[blocks[block].own].closed_by

\* C28: when several jobs run interleaved on the shared agent, each
\* "async with tmdb_service" block uses from its entry to its exit the session
\* it opened itself: no other block replaces or closes that session while the
\* block is running, and every session is closed by the block that opened it
\* and by no other.
C28_OwnSessionPerBlock ==
  /\ \A block \in 1..MaxBlocks : BlockKeepsOwnSession(block) /\ BlockClosedOwnSession(block)
  /\ \A i \in DOMAIN sessions : sessions[i].closed_by \subseteq {sessions[i].opened_by}

\* a generate_review call that ended did not raise, and if its generation
\* failed it returned rating 0.0, word_count 0 and the error text as review
ReviewOfFailure(result) ==
  /\ ~result.raised
  /\ result.failed =>
       /\ result.ret.rating = RInt(0)
       /\ result.ret.word_count = 0
       /\ result.ret.review = ErrorPrefix \o result.error

\* the batch response holds one review per requested movie, in the order of
\* the request, each being what the generate_review call of that movie returned
OneReviewPerMovie ==
  /\ batch_response.status_code = 200
  /\ batch_response.body.total_movies = Len(batch_request)
  /\ Len(batch_response.body.reviews) = Len(batch_request)
  /\ \A i \in DOMAIN batch_request :
       /\ batch_response.body.reviews[i] = batch_results[i].ret
       /\ batch_response.body.reviews[i].review_style = batch_request[i].review_style

\* C29: MovieReviewAgent.generate_review never raises: a movie whose
\* generation fails yields a ReviewResponse with rating 0.0, word_count 0 and
\* the error text as review; so the batch response always has total_movies
\* equal to the number of requested movies, with the reviews in the order of the
\* request, and one movie's failure changes no other movie's review.
C29_BatchIsolation ==
  /\ \A i \in DOMAIN batch_results :
       batch_results[i] # None => ReviewOfFailure(batch_results[i])
  /\ batch_pc = "responded" /\ review_agent # None => OneReviewPerMovie

\* twice the net tally positive_tally - negative_tally of a text
DoubleNetTally(t) ==
  DoubleTally(positive_keywords, lower(t), NegatedByWholeWindow)
    - DoubleTally(negative_keywords, lower(t), NegatedByWholeWindow)

\* the score has the label positive, the label negative
LabelPositive(s) == RLess(R(1, 10), s)
LabelNegative(s) == RLess(s, R(-1, 10))

\* C30 as stated: one keyword hit suffices for a non-neutral label: whenever
\* the net tally is at least 1 the score analyze returns is greater than 0.1
\* (label positive), and whenever it is at most -1 the score is less than -0.1
\* (label negative).
C30_Original ==
  score # None =>
    /\ DoubleNetTally(text) >= 2 => LabelPositive(score)
    /\ DoubleNetTally(text) <= -2 => LabelNegative(score)

\* C30, amended: two keyword hits suffice for a non-neutral label: whenever
\* the net tally is at least 2 the score analyze returns is greater than 0.1
\* (label positive), and whenever it is at most -2 the score is less than -0.1
\* (label negative); a net tally of 1 or 1.5 in either direction gives a score
\* inside the neutral band [-0.1, 0.1].
C30_Amended ==
  score # None =>
    /\ DoubleNetTally(text) >= 4 => LabelPositive(score)
    /\ DoubleNetTally(text) <= -4 => LabelNegative(score)
    /\ DoubleNetTally(text) \in {-3, -2, 2, 3} =>
         ~LabelPositive(score) /\ ~LabelNegative(score)

\* 好不差: a positive keyword and a negated negative keyword, net tally 2,
\* score 24/203, label positive
C30_Witness ==
  /\ text = <<22909, 19981, 24046>>
  /\ DoubleNetTally(text) = 4
  /\ score = R(24, 203)
  /\ LabelPositive(score)
====
